---- MODULE Spec2Model ----
(***************************************************************************)
(* FileScope AI: the adaptive ingestion and quality-analysis pipeline of    *)
(* backend/core_ai (views.py, tasks.py).                                    *)
(*                                                                          *)
(* Text is modelled as a sequence of one-character strings, so that every   *)
(* parsing step (strip, split, json.loads, read_csv) is computed from the   *)
(* characters.  Numbers with one decimal (scores) are integers counting     *)
(* tenths; missing_percentage (two decimals) counts hundredths.             *)
(***************************************************************************)
EXTENDS Integers, Sequences, FiniteSets, TLC

(***************************************************************************)
(* Python str helpers                                                       *)
(***************************************************************************)
Min(a, b) == IF a <= b THEN a ELSE b

Max(a, b) == IF a >= b THEN a ELSE b

\* str.isspace for the characters of the model
IsSpace(c) == c \in {" ", "\n", "\t", "\r"}

Digits == <<"0", "1", "2", "3", "4", "5", "6", "7", "8", "9">>

IsDigit(c) == \E d \in 1..10 : Digits[d] = c

DigitVal(c) == (CHOOSE d \in 1..10 : Digits[d] = c) - 1

RECURSIVE LStrip(_)
LStrip(s) == IF s = <<>> THEN s
             ELSE IF IsSpace(Head(s)) THEN LStrip(Tail(s)) ELSE s

RECURSIVE RStrip(_)
RStrip(s) == IF s = <<>> THEN s
             ELSE IF IsSpace(s[Len(s)]) THEN RStrip(SubSeq(s, 1, Len(s) - 1)) ELSE s

\* str.strip()
Strip(s) == RStrip(LStrip(s))

\* s[:n]
Prefix(s, n) == SubSeq(s, 1, Min(n, Len(s)))

\* str.count(c) for a one-character c
Count(s, c) == Cardinality({i \in 1..Len(s) : s[i] = c})

\* str.split(sep) for a one-character sep: always at least one piece
RECURSIVE Split(_, _)
Split(s, sep) ==
    IF \A i \in 1..Len(s) : s[i] # sep THEN <<s>>
    ELSE LET i == CHOOSE j \in 1..Len(s) :
                      s[j] = sep /\ \A k \in 1..(j - 1) : s[k] # sep
         IN  <<SubSeq(s, 1, i - 1)>> \o Split(SubSeq(s, i + 1, Len(s)), sep)

\* str(n) of a natural number
RECURSIVE NatStr(_)
NatStr(n) == IF n < 10 THEN <<Digits[n + 1]>>
             ELSE NatStr(n \div 10) \o <<Digits[(n % 10) + 1]>>

\* int(s) of a non-empty string of digits
RECURSIVE StrNat(_)
StrNat(s) == IF Len(s) = 1 THEN DigitVal(s[1])
             ELSE 10 * StrNat(SubSeq(s, 1, Len(s) - 1)) + DigitVal(s[Len(s)])

AllDigits(s) == s # <<>> /\ \A i \in 1..Len(s) : IsDigit(s[i])

\* sep.join(parts)
RECURSIVE Join(_, _)
Join(sep, parts) ==
    IF parts = <<>> THEN <<>>
    ELSE IF Len(parts) = 1 THEN parts[1]
    ELSE parts[1] \o sep \o Join(sep, Tail(parts))

(***************************************************************************)
(* json.loads: objects, arrays, strings (no escapes), unsigned integers,    *)
(* null, true, false.  A JSON value is a record tagged by t.                *)
(***************************************************************************)
JStr(s) == [t |-> "str", s |-> s]

JNum(n) == [t |-> "num", n |-> n]

JNull == [t |-> "null"]

JBool(b) == [t |-> "bool", b |-> b]

\* a dict: keys in insertion order, vs[i] the value of ks[i]
JObj(ks, vs) == [t |-> "obj", ks |-> ks, vs |-> vs]

JArr(vs) == [t |-> "arr", vs |-> vs]

JFail == [ok |-> FALSE, v |-> JNull, i |-> 0]

JOk(v, i) == [ok |-> TRUE, v |-> v, i |-> i]

\* first index >= i that is not whitespace (Len(s) + 1 at the end)
RECURSIVE SkipWs(_, _)
SkipWs(s, i) == IF i <= Len(s) /\ IsSpace(s[i]) THEN SkipWs(s, i + 1) ELSE i

\* first index >= i holding c, or 0
RECURSIVE FindFrom(_, _, _)
FindFrom(s, i, c) == IF i > Len(s) THEN 0
                     ELSE IF s[i] = c THEN i ELSE FindFrom(s, i + 1, c)

\* end of the run of digits starting at i
RECURSIVE DigitsEnd(_, _)
DigitsEnd(s, i) == IF i <= Len(s) /\ IsDigit(s[i]) THEN DigitsEnd(s, i + 1) ELSE i

HasAt(s, i, w) == i + Len(w) - 1 <= Len(s) /\ SubSeq(s, i, i + Len(w) - 1) = w

\* dict[k] = v: a repeated key keeps its position and takes the last value
DictSet(ks, vs, k, v) ==
    IF \E j \in 1..Len(ks) : ks[j] = k
    THEN LET j == CHOOSE j \in 1..Len(ks) : ks[j] = k
         IN  <<ks, [vs EXCEPT ![j] = v]>>
    ELSE <<Append(ks, k), Append(vs, v)>>

RECURSIVE ParseValue(_, _)
RECURSIVE ParseMembers(_, _, _, _)
RECURSIVE ParseElements(_, _, _)

\* members of an object after '{' or ',': i is at the next key
ParseMembers(s, i0, ks, vs) ==
    LET i == SkipWs(s, i0) IN
    IF i > Len(s) \/ s[i] # "\"" THEN JFail
    ELSE LET e == FindFrom(s, i + 1, "\"") IN
         IF e = 0 THEN JFail
         ELSE LET k == SubSeq(s, i + 1, e - 1)
                  c == SkipWs(s, e + 1)
              IN  IF c > Len(s) \/ s[c] # ":" THEN JFail
                  ELSE LET r == ParseValue(s, c + 1) IN
                       IF ~r.ok THEN JFail
                       ELSE LET d == DictSet(ks, vs, k, r.v)
                                n == SkipWs(s, r.i)
                            IN  IF n > Len(s) THEN JFail
                                ELSE IF s[n] = "}" THEN JOk(JObj(d[1], d[2]), n + 1)
                                ELSE IF s[n] = "," THEN ParseMembers(s, n + 1, d[1], d[2])
                                ELSE JFail

\* elements of an array after '[' or ',': i is at the next value
ParseElements(s, i0, vs) ==
    LET r == ParseValue(s, i0) IN
    IF ~r.ok THEN JFail
    ELSE LET n == SkipWs(s, r.i) IN
         IF n > Len(s) THEN JFail
         ELSE IF s[n] = "]" THEN JOk(JArr(Append(vs, r.v)), n + 1)
         ELSE IF s[n] = "," THEN ParseElements(s, n + 1, Append(vs, r.v))
         ELSE JFail

ParseValue(s, i0) ==
    LET i == SkipWs(s, i0) IN
    IF i > Len(s) THEN JFail
    ELSE IF s[i] = "{" THEN
        LET n == SkipWs(s, i + 1) IN
        IF n <= Len(s) /\ s[n] = "}" THEN JOk(JObj(<<>>, <<>>), n + 1)
        ELSE ParseMembers(s, i + 1, <<>>, <<>>)
    ELSE IF s[i] = "[" THEN
        LET n == SkipWs(s, i + 1) IN
        IF n <= Len(s) /\ s[n] = "]" THEN JOk(JArr(<<>>), n + 1)
        ELSE ParseElements(s, i + 1, <<>>)
    ELSE IF s[i] = "\"" THEN
        LET e == FindFrom(s, i + 1, "\"") IN
        IF e = 0 THEN JFail ELSE JOk(JStr(SubSeq(s, i + 1, e - 1)), e + 1)
    ELSE IF IsDigit(s[i]) THEN
        LET e == DigitsEnd(s, i) IN JOk(JNum(StrNat(SubSeq(s, i, e - 1))), e)
    ELSE IF HasAt(s, i, <<"n", "u", "l", "l">>) THEN JOk(JNull, i + 4)
    ELSE IF HasAt(s, i, <<"t", "r", "u", "e">>) THEN JOk(JBool(TRUE), i + 4)
    ELSE IF HasAt(s, i, <<"f", "a", "l", "s", "e">>) THEN JOk(JBool(FALSE), i + 5)
    ELSE JFail

\* json.loads(content_str): ok = FALSE stands for json.JSONDecodeError
json_loads(s) ==
    LET r == ParseValue(s, 1) IN
    IF r.ok /\ SkipWs(s, r.i) = Len(s) + 1 THEN r ELSE JFail

(***************************************************************************)
(* pandas DataFrame: ordered column names, one dtype per column, rows of    *)
(* cells.  A cell is a record tagged by k.  None is <<>>, a value x that    *)
(* may be None is <<x>>.                                                    *)
(***************************************************************************)
None == <<>>

Some(x) == <<x>>

CNum(n) == [k |-> "num", n |-> n]

CStr(s) == [k |-> "str", s |-> s]

CBool(b) == [k |-> "bool", b |-> b]

\* float NaN
CNaN == [k |-> "nan"]

\* Python None held in an object column
CNone == [k |-> "none"]

\* a dict or a list held in an object column (unhashable)
CObj(j) == [k |-> "pyobj", j |-> j]

DataFrame(columns, dtypes, rows) ==
    [columns |-> columns, dtypes |-> dtypes, rows |-> rows]

\* df.empty: any axis of length 0
Empty(df) == Len(df.rows) = 0 \/ Len(df.columns) = 0

\* pd.isnull of a cell
IsNull(c) == c.k \in {"nan", "none"}

\* the cells of column j
Column(df, j) == [i \in 1..Len(df.rows) |-> df.rows[i][j]]

\* df.isnull().sum().sum()
MissingCells(df) ==
    Cardinality({<<i, j>> \in (1..Len(df.rows)) \X (1..Len(df.columns)) :
                     IsNull(df.rows[i][j])})

\* np.number dtypes (bool and object are not)
NumericDtypes == {"int64", "float64"}

\* df.select_dtypes(include=[np.number]).columns, as column positions
NumericCols(df) == {j \in 1..Len(df.columns) : df.dtypes[j] \in NumericDtypes}

\* Some cell is a dict or a list: hashing it (unique, duplicated) raises TypeError
HasUnhashable(df) ==
    \E i \in 1..Len(df.rows) : \E j \in 1..Len(df.columns) : df.rows[i][j].k = "pyobj"

(***************************************************************************)
(* pd.read_csv(StringIO(content_str)) with default options, for text        *)
(* without quote characters: header first, blank lines skipped, short rows  *)
(* padded with NaN, extra leading fields of the first data row taken as the *)
(* index, a later row with more fields than that raises ParserError.        *)
(***************************************************************************)
\* strings read_csv takes as missing (the default na_values the alphabet can spell)
NaStrings == { <<>>, <<"N", "A">>, <<"N", "a", "N">>, <<"n", "a", "n">>,
               <<"n", "u", "l", "l">>, <<"N", "U", "L", "L">> }

UnnamedCol(i) == <<"U", "n", "n", "a", "m", "e", "d", ":", " ">> \o NatStr(i)

\* header names: an empty name becomes 'Unnamed: i', a repeated name 'x.k'
HeaderNames(h) ==
    LET base == [i \in 1..Len(h) |-> IF h[i] = <<>> THEN UnnamedCol(i - 1) ELSE h[i]]
    IN  [i \in 1..Len(h) |->
            LET k == Cardinality({j \in 1..(i - 1) : base[j] = base[i]})
            IN  IF k = 0 THEN base[i] ELSE base[i] \o <<".">> \o NatStr(k)]

\* dtype read_csv infers for a column of fields
CsvDtype(fields) ==
    LET present == {i \in 1..Len(fields) : fields[i] \notin NaStrings} IN
    IF fields = <<>> THEN "object"
    ELSE IF \A i \in present : AllDigits(fields[i])
    THEN IF present = 1..Len(fields) THEN "int64" ELSE "float64"
    ELSE "object"

CsvCell(field, dtype) ==
    IF field \in NaStrings THEN CNaN
    ELSE IF dtype = "object" THEN CStr(field) ELSE CNum(StrNat(field))

PadFields(fields, w) == fields \o [i \in 1..(w - Len(fields)) |-> <<>>]

read_csv(content_str) ==
    LET lines    == Split(content_str, "\n")
        nonblank == SelectSeq(lines, LAMBDA l : Strip(l) # <<>>)
    IN
    IF nonblank = <<>> THEN [ok |-> FALSE, df |-> None]   \* EmptyDataError
    ELSE
    LET header  == Split(nonblank[1], ",")
        data    == [i \in 1..(Len(nonblank) - 1) |-> Split(nonblank[i + 1], ",")]
        ncols   == Len(header)
        width   == IF data = <<>> THEN ncols ELSE Max(ncols, Len(data[1]))
        leading == width - ncols
        padded  == [i \in 1..Len(data) |-> PadFields(data[i], width)]
        field(i, j) == padded[i][leading + j]
        dtypes  == [j \in 1..ncols |-> CsvDtype([i \in 1..Len(data) |-> field(i, j)])]
    IN
    IF \E i \in 2..Len(data) : Len(data[i]) > width
    THEN [ok |-> FALSE, df |-> None]                       \* ParserError
    ELSE [ok |-> TRUE,
          df |-> Some(DataFrame(HeaderNames(header), dtypes,
                      [i \in 1..Len(data) |->
                          [j \in 1..ncols |-> CsvCell(field(i, j), dtypes[j])]]))]

(***************************************************************************)
(* pd.DataFrame built from Python values (the JSON probe)                   *)
(***************************************************************************)
\* a value of a row that has no such key
Missing == [t |-> "missing"]

\* dtype pandas infers for a column of Python values
PyDtype(vals) ==
    LET kinds == {vals[i].t : i \in 1..Len(vals)} \ {"null", "missing"}
        nulls == \E i \in 1..Len(vals) : vals[i].t \in {"null", "missing"}
    IN  IF kinds = {"num"} THEN (IF nulls THEN "float64" ELSE "int64")
        ELSE IF kinds = {"bool"} /\ ~nulls THEN "bool"
        ELSE "object"

PyCell(v, dtype) ==
    IF v.t = "missing" THEN CNaN
    ELSE IF v.t = "null" THEN (IF dtype = "object" THEN CNone ELSE CNaN)
    ELSE IF v.t = "num" THEN CNum(v.n)
    ELSE IF v.t = "str" THEN CStr(v.s)
    ELSE IF v.t = "bool" THEN CBool(v.b)
    ELSE CObj(v)

DictGet(d, key) ==
    IF \E j \in 1..Len(d.ks) : d.ks[j] = key
    THEN d.vs[CHOOSE j \in 1..Len(d.ks) : d.ks[j] = key]
    ELSE Missing

\* the keys of the records in first-seen order
RECURSIVE UnionKeys(_, _)
UnionKeys(records, acc) ==
    IF records = <<>> THEN acc
    ELSE UnionKeys(Tail(records),
                   acc \o SelectSeq(Head(records).ks,
                                    LAMBDA key : \A j \in 1..Len(acc) : acc[j] # key))

\* pd.DataFrame(list of dicts): one row per dict, absent keys are NaN
FrameOfRecords(records) ==
    LET columns == UnionKeys(records, <<>>)
        val(i, j) == DictGet(records[i], columns[j])
        dtypes  == [j \in 1..Len(columns) |->
                        PyDtype([i \in 1..Len(records) |-> val(i, j)])]
    IN  DataFrame(columns, dtypes,
                  [i \in 1..Len(records) |->
                      [j \in 1..Len(columns) |-> PyCell(val(i, j), dtypes[j])]])

\* pd.DataFrame({name: values}): one column
FrameOfColumn(name, values) ==
    LET dtype == PyDtype(values) IN
    DataFrame(<<name>>, <<dtype>>,
              [i \in 1..Len(values) |-> <<PyCell(values[i], dtype)>>])

(***************************************************************************)
(* flatten_json_object and the Python str()/repr() it relies on             *)
(***************************************************************************)
RECURSIVE PyRepr(_)
\* repr(value)
PyRepr(v) ==
    IF v.t = "str" THEN <<"'">> \o v.s \o <<"'">>
    ELSE IF v.t = "num" THEN NatStr(v.n)
    ELSE IF v.t = "null" THEN <<"N", "o", "n", "e">>
    ELSE IF v.t = "bool" THEN (IF v.b THEN <<"T", "r", "u", "e">>
                                      ELSE <<"F", "a", "l", "s", "e">>)
    ELSE IF v.t = "arr"
    THEN <<"[">> \o Join(<<",", " ">>, [i \in 1..Len(v.vs) |-> PyRepr(v.vs[i])]) \o <<"]">>
    ELSE <<"{">> \o Join(<<",", " ">>,
                        [i \in 1..Len(v.ks) |->
                            <<"'">> \o v.ks[i] \o <<"'", ":", " ">> \o PyRepr(v.vs[i])])
         \o <<"}">>

\* str(value)
PyStr(v) == IF v.t = "str" THEN v.s ELSE PyRepr(v)

SmallObjectMax == 10

KeysShown == 5

SmallListMax == 5

ItemsShown == 3

ValueMaxLen == 200

\* flattened.update(nested)
RECURSIVE DictUpdate(_, _)
DictUpdate(d, e) ==
    IF e.ks = <<>> THEN d
    ELSE LET r == DictSet(d.ks, d.vs, e.ks[1], e.vs[1])
         IN  DictUpdate(JObj(r[1], r[2]), JObj(Tail(e.ks), Tail(e.vs)))

RECURSIVE FlattenFrom(_, _, _, _)
\* the loop of flatten_json_object from key i on, flattened being the dict so far
FlattenFrom(obj, prefix, i, flattened) ==
    IF i > Len(obj.ks) THEN flattened
    ELSE
    LET full_key == prefix \o obj.ks[i]
        value    == obj.vs[i]
        set(d, key, v) == LET r == DictSet(d.ks, d.vs, key, v) IN JObj(r[1], r[2])
        counted(n) == set(flattened, full_key \o <<"_", "c", "o", "u", "n", "t">>, JNum(n))
        next ==
            IF value.t = "obj" THEN
                IF Len(value.ks) <= SmallObjectMax
                THEN DictUpdate(counted(Len(value.ks)),
                                FlattenFrom(value, full_key \o <<"_">>, 1, JObj(<<>>, <<>>)))
                ELSE set(counted(Len(value.ks)), full_key \o <<"_", "k", "e", "y", "s">>,
                         JStr(Join(<<",", " ">>, Prefix(value.ks, KeysShown))))
            ELSE IF value.t = "arr" THEN
                IF value.vs # <<>> /\ Len(value.vs) <= SmallListMax
                THEN set(counted(Len(value.vs)), full_key \o <<"_", "i", "t", "e", "m", "s">>,
                         JStr(Join(<<",", " ">>,
                                   [j \in 1..Min(ItemsShown, Len(value.vs)) |->
                                       PyStr(value.vs[j])])))
                ELSE counted(Len(value.vs))
            ELSE set(flattened, full_key, JStr(Prefix(PyStr(value), ValueMaxLen)))
    IN  FlattenFrom(obj, prefix, i + 1, next)

flatten_json_object(obj, prefix) == FlattenFrom(obj, prefix, 1, JObj(<<>>, <<>>))

(***************************************************************************)
(* String constants of the source, spelled as character sequences           *)
(***************************************************************************)
SEC_DATASET == <<"D", "a", "t", "a", "s", "e", "t", " ", "I", "n", "f", "o", "r", "m", "a", "t", "i", "o", "n">>

SEC_QUALITY == <<"Q", "u", "a", "l", "i", "t", "y", " ", "M", "e", "t", "r", "i", "c", "s">>

SEC_ANOMALIES == <<"A", "n", "o", "m", "a", "l", "i", "e", "s">>

SEC_DETAILED == <<"D", "e", "t", "a", "i", "l", "e", "d", " ", "A", "n", "o", "m", "a", "l", "i", "e", "s">>

SEC_BIAS == <<"B", "i", "a", "s", " ", "M", "e", "t", "r", "i", "c", "s">>

SEC_INSIGHTS == <<"A", "I", " ", "I", "n", "s", "i", "g", "h", "t", "s">>

TAG_DATASET == <<"d", "a", "t", "a", "s", "e", "t", "_", "i", "n", "f", "o", "r", "m", "a", "t", "i", "o", "n">>

TAG_QUALITY == <<"q", "u", "a", "l", "i", "t", "y", "_", "m", "e", "t", "r", "i", "c", "s">>

TAG_ANOMALIES == <<"a", "n", "o", "m", "a", "l", "i", "e", "s">>

TAG_DETAILED == <<"d", "e", "t", "a", "i", "l", "e", "d", "_", "a", "n", "o", "m", "a", "l", "i", "e", "s">>

TAG_BIAS == <<"b", "i", "a", "s", "_", "m", "e", "t", "r", "i", "c", "s">>

TAG_INSIGHTS == <<"a", "i", "_", "i", "n", "s", "i", "g", "h", "t", "s">>

TAG_HEADER == <<"h", "e", "a", "d", "e", "r">>

COL_SECTION == <<"s", "e", "c", "t", "i", "o", "n">>

COL_METRIC == <<"m", "e", "t", "r", "i", "c">>

COL_VALUE == <<"v", "a", "l", "u", "e">>

COL_LINE_NUMBER == <<"l", "i", "n", "e", "_", "n", "u", "m", "b", "e", "r">>

COL_CONTENT == <<"c", "o", "n", "t", "e", "n", "t">>

COL_CHAR_COUNT == <<"c", "h", "a", "r", "_", "c", "o", "u", "n", "t">>

COL_IS_EMPTY == <<"i", "s", "_", "e", "m", "p", "t", "y">>

COL_ITEMS == <<"i", "t", "e", "m", "s">>

KEY_NAME == <<"n", "a", "m", "e">>

KEY_VERSION == <<"v", "e", "r", "s", "i", "o", "n">>

ANALYSIS_REPORT == <<"A", "n", "a", "l", "y", "s", "i", "s", " ", "R", "e", "p", "o", "r", "t">>

(***************************************************************************)
(* parse_analysis_report                                                    *)
(***************************************************************************)
RECURSIVE LStripChar(_, _)
LStripChar(s, c) == IF s # <<>> /\ Head(s) = c THEN LStripChar(Tail(s), c) ELSE s

RECURSIVE RStripChar(_, _)
RStripChar(s, c) == IF s # <<>> /\ s[Len(s)] = c
                    THEN RStripChar(SubSeq(s, 1, Len(s) - 1), c) ELSE s

\* str.strip(c)
StripChar(s, c) == RStripChar(LStripChar(s, c), c)

\* 'needle in s'
Contains(s, needle) == \E i \in 1..(Len(s) - Len(needle) + 1) : HasAt(s, i, needle)

\* str.split(',', 1)
SplitFirst(s, sep) ==
    LET i == FindFrom(s, 1, sep) IN
    IF i = 0 THEN <<s>> ELSE <<SubSeq(s, 1, i - 1), SubSeq(s, i + 1, Len(s))>>

SectionHeaders ==
    { SEC_DATASET, SEC_QUALITY, SEC_ANOMALIES, SEC_DETAILED, SEC_BIAS, SEC_INSIGHTS }

\* a loop that never leaves the initial section
SectionTag_header(line) == TAG_HEADER

\* line.lower().replace(' ', '_') of a section header
SectionTag(line) ==
    CASE line = SEC_DATASET   -> TAG_DATASET
      [] line = SEC_QUALITY   -> TAG_QUALITY
      [] line = SEC_ANOMALIES -> TAG_ANOMALIES
      [] line = SEC_DETAILED  -> TAG_DETAILED
      [] line = SEC_BIAS      -> TAG_BIAS
      [] line = SEC_INSIGHTS  -> TAG_INSIGHTS

RECURSIVE ReportRows(_, _, _, _)
\* the loop of parse_analysis_report from line i on: the rows appended so far
ReportRows(lines, i, current_section, acc) ==
    IF i > Len(lines) THEN acc
    ELSE
    LET line == StripChar(Strip(lines[i]), "\"") IN
    IF line = <<>> THEN ReportRows(lines, i + 1, current_section, acc)
    ELSE IF line \in SectionHeaders
    THEN ReportRows(lines, i + 1, SectionTag(line), acc)
    ELSE IF Count(line, ",") > 0
    THEN LET raw   == SplitFirst(line, ",")
             parts == [p \in 1..Len(raw) |-> StripChar(Strip(raw[p]), "\"")]
         IN  IF parts[1] # <<>> /\ parts[2] # <<>>
             THEN ReportRows(lines, i + 1, current_section,
                      Append(acc, <<CStr(current_section), CStr(parts[1]),
                                    CStr(parts[2]), CNum(i)>>))
             ELSE ReportRows(lines, i + 1, current_section, acc)
    ELSE ReportRows(lines, i + 1, current_section,
             Append(acc, <<CStr(current_section), CStr(COL_CONTENT), CStr(line), CNum(i)>>))

parse_analysis_report(content_str) ==
    LET lines == Split(Strip(content_str), "\n")
        rows  == ReportRows(lines, 1, TAG_HEADER, <<>>)
    IN  IF rows # <<>>
        THEN DataFrame(<<COL_SECTION, COL_METRIC, COL_VALUE, COL_LINE_NUMBER>>,
                       <<"object", "object", "object", "int64">>, rows)
        ELSE FrameOfColumn(COL_CONTENT, [i \in 1..Len(lines) |-> JStr(lines[i])])

(***************************************************************************)
(* Uploaded files.  A file is its bytes together with what the two binary   *)
(* readers make of those bytes: excel is the table pd.read_excel(file)      *)
(* returns and mammoth the text mammoth.extract_raw_text returns, None when *)
(* the reader raises (as both do on bytes that are no zip container).       *)
(***************************************************************************)
\* a byte that is not valid UTF-8: decode(errors='ignore') drops it
BadByte == "xFF"

\* bound on the length of the enumerated text files
MaxLen == 4

TextAlphabet == {"a", "1", ",", "\n"}

EnumeratedTexts == UNION {[1..n -> TextAlphabet] : n \in 0..MaxLen}

\* the package.json of test_package_json_as_csv, without white space
PackageJson == <<"{", "\"", "n", "a", "m", "e", "\"", ":", "\"", "t", "e", "s", "t", "\"", ",", "\"", "v", "e", "r", "s", "i", "o", "n", "\"", ":", "\"", "1", ".", "0", ".", "0", "\"", "}">>

\* test_content of test_package_json_as_csv, as written there
test_content == <<"{", "\"", "n", "a", "m", "e", "\"", ":", " ", "\"", "t", "e", "s", "t", "\"", ",", " ", "\"", "v", "e", "r", "s", "i", "o", "n", "\"", ":", " ", "\"", "1", ".", "0", ".", "0", "\"", "}">>

\* the CSV of AnalysisTestCase.test_upload_flow
RoundTripCsv == <<"c", "o", "l", "1", ",", "c", "o", "l", "2", "\n", "1", ",", "2", "\n", "3", ",", "4">>

EmptyObject == <<"{", "}">>

EmptyArray == <<"[", "]">>

ArrayOfEmpty == <<"[", "{", "}", "]">>

PlainObject == <<"{", "\"", "a", "\"", ":", "1", ",", "\"", "b", "\"", ":", "\"", "x", "\"", "}">>

NullObject == <<"{", "\"", "a", "\"", ":", "n", "u", "l", "l", "}">>

NestedObject == <<"{", "\"", "a", "\"", ":", "{", "\"", "b", "\"", ":", "1", "}", "}">>

Records == <<"[", "{", "\"", "a", "\"", ":", "1", "}", ",", "{", "\"", "a", "\"", ":", "2", ",", "\"", "b", "\"", ":", "\"", "x", "\"", "}", "]">>

Scalars == <<"[", "1", ",", "2", ",", "3", "]">>

MixedArray == <<"[", "{", "\"", "a", "\"", ":", "1", "}", ",", "2", "]">>

BrokenJson == <<"{", "\"", "a", "\"", ":", "1">>

BraceCsv == <<"{", "a", ",", "b">>

RaggedCsv == <<"a", ",", "b", "\n", "1", ",", "2", "\n", "3", ",", "4", ",", "5">>

ConfigNested == <<"{", "\"", "n", "a", "m", "e", "\"", ":", "\"", "x", "\"", ",", "\"", "v", "e", "r", "s", "i", "o", "n", "\"", ":", "\"", "1", "\"", ",", "\"", "d", "e", "p", "s", "\"", ":", "{", "\"", "a", "\"", ":", "\"", "1", "\"", "}", ",", "\"", "t", "a", "g", "s", "\"", ":", "[", "\"", "t", "\"", "]", "}">>

ReportCsv == <<"R", "e", "p", "o", "r", "t", ",", "V", "a", "l", "u", "e", "\n", "A", "n", "a", "l", "y", "s", "i", "s", " ", "R", "e", "p", "o", "r", "t", ",", "x", "\n", "Q", "u", "a", "l", "i", "t", "y", " ", "M", "e", "t", "r", "i", "c", "s", "\n", "s", "c", "o", "r", "e", ",", "9">>

\* non-empty bytes none of which decodes
\* an object with one value among eleven nulls
SparseObject == <<"{", "\"", "a", "\"", ":", "\"", "x", "\"", ",", "\"", "b", "\"", ":", "n", "u", "l", "l", ",", "\"", "c", "\"", ":", "n", "u", "l", "l", ",", "\"", "d", "\"", ":", "n", "u", "l", "l", ",", "\"", "e", "\"", ":", "n", "u", "l", "l", ",", "\"", "f", "\"", ":", "n", "u", "l", "l", ",", "\"", "g", "\"", ":", "n", "u", "l", "l", ",", "\"", "h", "\"", ":", "n", "u", "l", "l", ",", "\"", "i", "\"", ":", "n", "u", "l", "l", ",", "\"", "j", "\"", ":", "n", "u", "l", "l", ",", "\"", "k", "\"", ":", "n", "u", "l", "l", ",", "\"", "l", "\"", ":", "n", "u", "l", "l", "}">>

InvalidBytes == <<BadByte>>

\* a configuration object holding an object inside an object
DeepConfig == <<"{", "\"", "n", "a", "m", "e", "\"", ":", "\"", "x", "\"", ",", "\"", "v", "e", "r", "s", "i", "o", "n", "\"", ":", "\"", "1", "\"", ",", "\"", "d", "\"", ":", "{", "\"", "e", "\"", ":", "{", "\"", "f", "\"", ":", "1", "}", "}", "}">>

\* a header line and one record, separated by tabs, without a comma
TabTable == <<"a", "\t", "b", "\n", "1", "\t", "2">>

CuratedTexts == { DeepConfig, TabTable, SparseObject, PackageJson, test_content, RoundTripCsv, EmptyObject, EmptyArray, ArrayOfEmpty, PlainObject, NullObject, NestedObject, Records, Scalars, MixedArray, BrokenJson, BraceCsv, RaggedCsv, ConfigNested, ReportCsv, InvalidBytes }

TextFile(bytes) == [bytes |-> bytes, excel |-> None, mammoth |-> None]

\* the start of a zip container (.xlsx, .docx) as it decodes, without and with a comma
ZipBytes == { <<"P", "K", BadByte>>, <<"P", "K", ",", BadByte, "\n", "a">> }

\* sheets pd.read_excel may return: a table, and an empty sheet
ExcelSheets ==
    { DataFrame(<<<<"x">>, <<"y">>>>, <<"int64", "object">>,
                << <<CNum(1), CStr(<<"a">>)>>, <<CNum(2), CNaN>> >>),
      DataFrame(<<>>, <<>>, <<>>) }

\* texts mammoth may extract
DocTexts == { <<"a", "\n", "b">>, <<>> }

Files ==
    {TextFile(b) : b \in EnumeratedTexts \cup CuratedTexts}
    \cup {[bytes |-> b, excel |-> Some(t), mammoth |-> None] :
              b \in ZipBytes, t \in ExcelSheets}
    \cup {[bytes |-> b, excel |-> None, mammoth |-> Some(t)] :
              b \in ZipBytes, t \in DocTexts}

ALLOWED_EXTENSIONS ==
    {".csv", ".json", ".xlsx", ".xls", ".parquet", ".txt", ".tsv", ".doc", ".docx"}

\* declared_extension.lstrip('.')
LStripDot(ext) ==
    CASE ext = ".csv" -> "csv"   [] ext = ".json" -> "json" [] ext = ".xlsx" -> "xlsx"
      [] ext = ".xls" -> "xls"   [] ext = ".parquet" -> "parquet"
      [] ext = ".txt" -> "txt"   [] ext = ".tsv" -> "tsv"
      [] ext = ".doc" -> "doc"   [] ext = ".docx" -> "docx"

\* file_content.decode('utf-8'), and on UnicodeDecodeError decode(errors='ignore')
Decode(bytes) == SelectSeq(bytes, LAMBDA b : b # BadByte)

PreviewChars == 2000

SniffLines == 10

FallbackLines == 1000

(***************************************************************************)
(* smart_file_parser, one action per probe                                  *)
(***************************************************************************)
VARIABLES
    file,                 \* the uploaded file
    declared_extension,   \* os.path.splitext(file.name)[1].lower()
    pc,                   \* where the run is
    content_str,          \* the decoded content
    df,                   \* the table so far, None until a probe builds one
    actual_content_type,  \* 'json', 'csv', 'excel', 'document', 'text', or "None"
    file_issues,          \* the structural issues, in detection order
    trail,                \* the probes whose body has been entered, in order
    dataset_info,         \* None until the parser returns
    exc,                  \* the exception a call ended with, "None" if none
    analysis_depth,       \* the depth passed to analyze_dataset_smart
    results,              \* what analyze_dataset_smart returned, None before
    task_df,              \* the table handed to the analyses of tasks.py
    iso_fitted,           \* whether IsolationForest.fit_predict has been called
    anomaly_report,       \* what detect_anomalies returned, None before
    bias_report,          \* what analyze_bias returned, None before
    consistency_result,   \* what calculate_consistency_score(task_df) returned, None before
    request,              \* the upload request: has_file, size, strict_format
    stored,               \* whether default_storage.save has been called
    record,               \* status of the DatasetAnalysis record, "None" while there is none
    response,             \* the Response of upload_dataset, None before
    key_insights          \* the insights saved on the record, None before

parser_vars == <<file, declared_extension, content_str, df, actual_content_type,
                 file_issues, trail, dataset_info, exc, analysis_depth, results>>

task_vars == <<task_df, iso_fitted, anomaly_report, bias_report, consistency_result>>

upload_vars == <<request, stored, record, response, key_insights>>

vars == <<parser_vars, pc, task_vars, upload_vars>>

\* the parser and the analyses called without an upload request around them
DirectCall == [has_file |-> FALSE, size |-> 0, strict_format |-> FALSE]

Issue(type, severity, message, recommendation) ==
    [type |-> type, severity |-> severity, message |-> message,
     recommendation |-> recommendation]

\* content_str[:2000].strip()
content_preview == Strip(Prefix(content_str, PreviewChars))

Init ==
    /\ file \in Files
    /\ declared_extension \in ALLOWED_EXTENSIONS
    /\ pc = "start"
    /\ content_str = <<>>
    /\ df = None
    /\ actual_content_type = "None"
    /\ file_issues = <<>>
    /\ trail = <<>>
    /\ dataset_info = None
    /\ exc = "None"
    /\ analysis_depth = "None"
    /\ results = None
    /\ task_df = DataFrame(<<>>, <<>>, <<>>)
    /\ iso_fitted = FALSE
    /\ anomaly_report = None
    /\ bias_report = None
    /\ consistency_result = None
    /\ request = DirectCall
    /\ stored = FALSE
    /\ record = "None"
    /\ response = None
    /\ key_insights = None

\* file.read() and the decoding
ReadFile ==
    /\ pc = "start"
    /\ content_str' = Decode(file.bytes)
    /\ pc' = "json"
    /\ UNCHANGED <<task_vars, upload_vars>>
    /\ UNCHANGED <<file, declared_extension, df, actual_content_type, file_issues,
                   trail, dataset_info, exc, analysis_depth, results>>

\* the DataFrame the JSON probe builds from the parsed data; ok = FALSE when
\* pd.DataFrame raises (a list that starts with a dict and holds a non-dict)
JsonFrame(data) ==
    IF data.t = "obj" THEN
        IF (\E i \in 1..Len(data.ks) : data.ks[i] = KEY_NAME)
           /\ (\E i \in 1..Len(data.ks) : data.ks[i] = KEY_VERSION)
        THEN [ok |-> TRUE, df |-> FrameOfRecords(<<flatten_json_object(data, <<>>)>>)]
        ELSE [ok |-> TRUE, df |-> FrameOfRecords(<<data>>)]
    ELSE IF data.vs # <<>> THEN
        IF data.vs[1].t = "obj"
        THEN IF \A i \in 1..Len(data.vs) : data.vs[i].t = "obj"
             THEN [ok |-> TRUE, df |-> FrameOfRecords(data.vs)]
             ELSE [ok |-> FALSE, df |-> DataFrame(<<>>, <<>>, <<>>)]
        ELSE [ok |-> TRUE, df |-> FrameOfColumn(COL_ITEMS, data.vs)]
    ELSE [ok |-> TRUE, df |-> FrameOfColumn(COL_VALUE, <<data>>)]

\* JsonIssues with the mismatch test made against the wrong extension
JsonIssues_wrong_extension(data) ==
    (IF declared_extension # ".csv"
     THEN <<Issue("extension_mismatch", "medium",
                  <<"File contains JSON but has ", declared_extension, " extension">>,
                  <<"Consider renaming to .json">>)>>
     ELSE <<>>)
    \o
    (IF data.t = "obj"
        /\ (\E i \in 1..Len(data.ks) : data.ks[i] = KEY_NAME)
        /\ (\E i \in 1..Len(data.ks) : data.ks[i] = KEY_VERSION)
     THEN <<Issue("config_file_detected", "info",
                  <<"Configuration file (package.json style) detected">>,
                  <<"Data will be flattened for analysis">>)>>
     ELSE <<>>)

\* the issues the JSON probe appends once json.loads has succeeded
JsonIssues(data) ==
    (IF declared_extension # ".json"
     THEN <<Issue("extension_mismatch", "medium",
                  <<"File contains JSON but has ", declared_extension, " extension">>,
                  <<"Consider renaming to .json">>)>>
     ELSE <<>>)
    \o
    (IF data.t = "obj"
        /\ (\E i \in 1..Len(data.ks) : data.ks[i] = KEY_NAME)
        /\ (\E i \in 1..Len(data.ks) : data.ks[i] = KEY_VERSION)
     THEN <<Issue("config_file_detected", "info",
                  <<"Configuration file (package.json style) detected">>,
                  <<"Data will be flattened for analysis">>)>>
     ELSE <<>>)

\* 1. Try JSON parsing first
JsonProbe ==
    /\ pc = "json"
    /\ UNCHANGED <<task_vars, upload_vars>>
    /\ UNCHANGED <<file, declared_extension, content_str, dataset_info,
                   analysis_depth, results>>
    /\ IF content_preview # <<>> /\ content_preview[1] \in {"{", "["}
       THEN LET r == json_loads(content_str) IN
            /\ trail' = Append(trail, "json")
            /\ IF r.ok
               THEN LET f == JsonFrame(r.v) IN
                    /\ actual_content_type' = "json"
                    /\ file_issues' = file_issues \o JsonIssues(r.v)
                    /\ IF f.ok
                       THEN df' = Some(f.df) /\ pc' = "csv" /\ exc' = exc
                       ELSE df' = df /\ pc' = "raised" /\ exc' = "AttributeError"
               ELSE \* except json.JSONDecodeError: pass
                    /\ pc' = "csv"
                    /\ UNCHANGED <<df, actual_content_type, file_issues, exc>>
       ELSE /\ pc' = "csv"
            /\ UNCHANGED <<df, actual_content_type, file_issues, trail, exc>>

\* [line.count(',') for line in lines if line.strip()] over the first 10 lines
comma_counts ==
    LET lines == Prefix(Split(content_preview, "\n"), SniffLines)
        kept  == SelectSeq(lines, LAMBDA line : Strip(line) # <<>>)
    IN  [i \in 1..Len(kept) |-> Count(kept[i], ",")]

\* comma_counts and max(comma_counts) >= 1
CsvSniffed == comma_counts # <<>> /\ \E i \in 1..Len(comma_counts) : comma_counts[i] >= 1

\* str(cell)
CellStr(c) ==
    IF c.k = "str" THEN c.s
    ELSE IF c.k = "num" THEN NatStr(c.n)
    ELSE IF c.k = "nan" THEN <<"n", "a", "n">>
    ELSE IF c.k = "none" THEN <<"N", "o", "n", "e">>
    ELSE IF c.k = "bool" THEN PyRepr(JBool(c.b))
    ELSE PyRepr(c.j)

\* any('Analysis Report' in str(cell) for cell in df.iloc[:3, :].values.flatten())
IsReport(d) ==
    /\ Len(d.rows) > 0
    /\ \E i \in 1..Min(3, Len(d.rows)) : \E j \in 1..Len(d.columns) :
           Contains(CellStr(d.rows[i][j]), ANALYSIS_REPORT)

\* the issues the CSV probe appends once pd.read_csv has succeeded
CsvIssues(d) ==
    (IF declared_extension # ".csv"
     THEN <<Issue("extension_mismatch", "medium",
                  <<"File contains CSV data but has ", declared_extension, " extension">>,
                  <<"Consider renaming to .csv">>)>>
     ELSE <<>>)
    \o
    (IF IsReport(d)
     THEN <<Issue("report_format", "info", <<"Analysis report format detected">>,
                  <<"Will extract structured data from report">>)>>
     ELSE <<>>)

\* an except clause that records the failure as an issue
CsvFailureIssues_recorded ==
    <<Issue("parse_error", "high", <<"CSV parsing failed">>, <<"Check the delimiters">>)>>

\* what the CSV probe does when pd.read_csv raises: the except clause only logs
CsvFailureIssues == <<>>

\* 2. Try CSV parsing
CsvProbe ==
    /\ pc = "csv"
    /\ pc' = "excel"
    /\ UNCHANGED <<task_vars, upload_vars>>
    /\ UNCHANGED <<file, declared_extension, content_str, dataset_info, exc,
                   analysis_depth, results>>
    /\ IF df = None
       THEN /\ trail' = Append(trail, "csv")
            /\ IF CsvSniffed
               THEN LET r == read_csv(content_str) IN
                    IF r.ok
                    THEN LET d == r.df[1] IN
                         /\ df' = Some(IF IsReport(d) THEN parse_analysis_report(content_str)
                                       ELSE d)
                         /\ actual_content_type' = "csv"
                         /\ file_issues' = file_issues \o CsvIssues(d)
                    ELSE /\ file_issues' = file_issues \o CsvFailureIssues
                         /\ UNCHANGED <<df, actual_content_type>>
               ELSE UNCHANGED <<df, actual_content_type, file_issues>>
       ELSE UNCHANGED <<df, actual_content_type, file_issues, trail>>

\* 3. Try Excel formats
ExcelProbe ==
    /\ pc = "excel"
    /\ pc' = "doc"
    /\ UNCHANGED <<task_vars, upload_vars>>
    /\ UNCHANGED <<file, declared_extension, content_str, file_issues, dataset_info,
                   exc, analysis_depth, results>>
    /\ IF df = None /\ declared_extension \in {".xlsx", ".xls"}
       THEN /\ trail' = Append(trail, "excel")
            /\ IF file.excel # None
               THEN df' = file.excel /\ actual_content_type' = "excel"
               ELSE UNCHANGED <<df, actual_content_type>>
       ELSE UNCHANGED <<df, actual_content_type, trail>>

\* the three-column table of the document probe
DocFrame(text_lines) ==
    DataFrame(<<COL_LINE_NUMBER, COL_CONTENT, COL_CHAR_COUNT>>,
              <<"int64", "object", "int64">>,
              [i \in 1..Len(text_lines) |->
                  <<CNum(i), CStr(text_lines[i]), CNum(Len(text_lines[i]))>>])

\* 4. Try document formats
DocProbe ==
    /\ pc = "doc"
    /\ pc' = "fallback"
    /\ UNCHANGED <<task_vars, upload_vars>>
    /\ UNCHANGED <<file, declared_extension, content_str, dataset_info, exc,
                   analysis_depth, results>>
    /\ IF df = None /\ declared_extension \in {".doc", ".docx"}
       THEN /\ trail' = Append(trail, "document")
            /\ IF declared_extension = ".docx" /\ file.mammoth = None
               THEN UNCHANGED <<df, actual_content_type, file_issues>>
               ELSE LET text_lines == IF declared_extension = ".docx"
                                      THEN Split(file.mammoth[1], "\n")
                                      ELSE Split(content_str, "\n")
                    IN  /\ df' = Some(DocFrame(text_lines))
                        /\ actual_content_type' = "document"
                        /\ file_issues' = Append(file_issues,
                               Issue("document_parsed", "info",
                                     <<"Document converted to line-by-line analysis format">>,
                                     <<"Text content extracted for analysis">>))
       ELSE UNCHANGED <<df, actual_content_type, file_issues, trail>>

\* FallbackFrame built from the non-blank lines only
FallbackFrame_skip_blank(lines) ==
    LET kept == SelectSeq(lines, LAMBDA line : Strip(line) # <<>>) IN
    DataFrame(<<COL_LINE_NUMBER, COL_CONTENT, COL_CHAR_COUNT, COL_IS_EMPTY>>,
              <<"int64", "object", "int64", "bool">>,
              [i \in 1..Len(kept) |->
                  <<CNum(i), CStr(kept[i]), CNum(Len(kept[i])), CBool(FALSE)>>])

\* the four-column table of the text fallback
FallbackFrame(lines) ==
    DataFrame(<<COL_LINE_NUMBER, COL_CONTENT, COL_CHAR_COUNT, COL_IS_EMPTY>>,
              <<"int64", "object", "int64", "bool">>,
              [i \in 1..Len(lines) |->
                  <<CNum(i), CStr(lines[i]), CNum(Len(lines[i])),
                    CBool(Strip(lines[i]) = <<>>)>>])

\* 5. Fallback to text analysis
Fallback ==
    /\ pc = "fallback"
    /\ pc' = "check"
    /\ UNCHANGED <<task_vars, upload_vars>>
    /\ UNCHANGED <<file, declared_extension, content_str, dataset_info, exc,
                   analysis_depth, results>>
    /\ IF df = None
       THEN /\ trail' = Append(trail, "text")
            /\ df' = Some(FallbackFrame(Prefix(Split(content_str, "\n"), FallbackLines)))
            /\ actual_content_type' = "text"
            /\ file_issues' = Append(file_issues,
                   Issue("fallback_parsing", "medium",
                         <<"Could not detect specific format, parsed as text">>,
                         <<"Verify file format and content">>))
       ELSE UNCHANGED <<df, actual_content_type, file_issues, trail>>

\* the integers nearest to n / d (n >= 0, d > 0).  round() works on the binary
\* value of the float, so a quotient that is an exact decimal tie may go either way.
RoundSet(n, d) ==
    LET q == n \div d
        r == n % d
    IN  IF 2 * r < d THEN {q} ELSE IF 2 * r > d THEN {q + 1} ELSE {q, q + 1}

\* the dataset_info dict (memory_usage_mb, which no analysis reads back except to
\* copy it, is left out); missing_percentage in hundredths
DatasetInfos(d) ==
    { [rows |-> Len(d.rows),
       columns |-> Len(d.columns),
       size_bytes |-> Len(file.bytes),
       file_type |-> LStripDot(declared_extension),
       actual_content_type |-> actual_content_type,
       extension_mismatch |-> actual_content_type # LStripDot(declared_extension),
       column_names |-> d.columns,
       column_types |-> d.dtypes,
       has_missing_values |-> MissingCells(d) > 0,
       missing_percentage |-> mp] :
      mp \in IF Len(d.rows) > 0 /\ Len(d.columns) > 0
             THEN RoundSet(10000 * MissingCells(d), Len(d.rows) * Len(d.columns))
             ELSE {0} }

\* the final check and the building of dataset_info
Check ==
    /\ pc = "check"
    /\ UNCHANGED <<task_vars, upload_vars>>
    /\ UNCHANGED <<file, declared_extension, content_str, df, actual_content_type,
                   file_issues, trail, analysis_depth, results>>
    /\ IF df = None \/ Empty(df[1])
       THEN /\ pc' = "raised"
            /\ exc' = "ValueError"
            /\ dataset_info' = dataset_info
       ELSE /\ pc' = "parsed"
            /\ exc' = exc
            /\ \E info \in DatasetInfos(df[1]) : dataset_info' = Some(info)

\* ConsistencyTerms with a term for every column, the all-null ones included
ConsistencyTerms_all_columns(d) ==
    LET nonnull(j) == {i \in 1..Len(d.rows) : ~IsNull(d.rows[i][j])}
        unique(j)  == Cardinality({d.rows[i][j] : i \in nonnull(j)})
    IN  [j \in 1..Len(d.columns) |->
            LET n == Cardinality(nonnull(j))
            IN  IF d.dtypes[j] = "object"
                THEN IF n > 0 /\ 5 * unique(j) > 4 * n
                     THEN <<100 * (n - unique(j)), n>>
                     ELSE <<80, 1>>
                ELSE <<90, 1>>]

(***************************************************************************)
(* analyze_dataset_smart: scores are counted in tenths                      *)
(***************************************************************************)
\* the per-column contributions of calculate_consistency_score as fractions
\* <<numerator, denominator>>, in column order
ConsistencyTerms(d) ==
    LET nonnull(j) == {i \in 1..Len(d.rows) : ~IsNull(d.rows[i][j])}
        unique(j)  == Cardinality({d.rows[i][j] : i \in nonnull(j)})
        counted    == SelectSeq([j \in 1..Len(d.columns) |-> j],
                          LAMBDA j : d.dtypes[j] # "object" \/ nonnull(j) # {})
    IN  [c \in 1..Len(counted) |->
            LET j == counted[c]
                n == Cardinality(nonnull(j))
            IN  IF d.dtypes[j] = "object"
                THEN IF 5 * unique(j) > 4 * n      \* unique_ratio > 0.8
                     THEN <<100 * (n - unique(j)), n>>
                     ELSE <<80, 1>>
                ELSE <<90, 1>>]

RECURSIVE SumFractions(_)
SumFractions(terms) ==
    IF terms = <<>> THEN <<0, 1>>
    ELSE LET rest == SumFractions(Tail(terms))
             h    == Head(terms)
         IN  <<h[1] * rest[2] + rest[1] * h[2], h[2] * rest[2]>>

\* the values calculate_consistency_score(df) may return
calculate_consistency_score(d) ==
    IF Empty(d) THEN {0}
    ELSE LET scores == ConsistencyTerms(d)
             total  == SumFractions(scores)
         IN  IF scores = <<>> THEN {500}
             ELSE RoundSet(10 * total[1], total[2] * Len(scores))

\* calculate_completeness_score without the "1 -": the share of missing cells
calculate_completeness_score_missing(d) ==
    IF Empty(d) THEN {0}
    ELSE RoundSet(1000 * MissingCells(d), Len(d.rows) * Len(d.columns))

\* the values calculate_completeness_score(df) may return
calculate_completeness_score(d) ==
    IF Empty(d) THEN {0}
    ELSE LET total_cells == Len(d.rows) * Len(d.columns)
         IN  RoundSet(1000 * (total_cells - MissingCells(d)), total_cells)

\* the values calculate_base_quality_score(df) may return, given the value
\* calculate_consistency_score(df) returned
calculate_base_quality_score(d, consistency) ==
    IF Empty(d) THEN {0}
    ELSE LET total_cells == Len(d.rows) * Len(d.columns)
         IN  RoundSet(1000 * (total_cells - MissingCells(d)) + consistency * total_cells,
                      2 * total_cells)

\* get_score_grade with the lower edge of each band taken as exclusive
get_score_grade_exclusive(score) ==
    IF score > 900 THEN "A"
    ELSE IF score > 800 THEN "B"
    ELSE IF score > 700 THEN "C"
    ELSE IF score > 600 THEN "D"
    ELSE "F"

get_score_grade(score) ==
    IF score >= 900 THEN "A"
    ELSE IF score >= 800 THEN "B"
    ELSE IF score >= 700 THEN "C"
    ELSE IF score >= 600 THEN "D"
    ELSE "F"

\* a penalty that charges a medium issue like a high one
SeverityPenalty_medium_as_high(severity) ==
    IF severity \in {"high", "medium"} THEN 10 ELSE 1

\* 10 if high, 5 if medium, else 1
SeverityPenalty(severity) ==
    IF severity = "high" THEN 10 ELSE IF severity = "medium" THEN 5 ELSE 1

RECURSIVE IssuePenalty(_)
\* sum(... for issue in file_issues)
IssuePenalty(issues) ==
    IF issues = <<>> THEN 0
    ELSE SeverityPenalty(Head(issues).severity) + IssuePenalty(Tail(issues))

\* base_score - issue_penalty without the max(..., 0)
FinalScore_unclamped(base_score, issue_penalty) == base_score - 10 * issue_penalty

\* max(base_score - issue_penalty, 0), in tenths
FinalScore(base_score, issue_penalty) == Max(base_score - 10 * issue_penalty, 0)

CountSeverity(issues, severity) ==
    Cardinality({i \in 1..Len(issues) : issues[i].severity = severity})

HasIssueType(issues, type) == \E i \in 1..Len(issues) : issues[i].type = type

\* df.duplicated().sum()
DuplicateRows(d) == Len(d.rows) - Cardinality({d.rows[i] : i \in 1..Len(d.rows)})

get_smart_basic_metrics(d, info) ==
    [total_rows |-> Len(d.rows),
     total_columns |-> Len(d.columns),
     missing_values_count |-> MissingCells(d),
     missing_percentage |-> info.missing_percentage,
     duplicate_rows |-> DuplicateRows(d),
     content_type |-> info.actual_content_type,
     numeric_columns |-> Cardinality(NumericCols(d)),
     text_columns |-> Cardinality({j \in 1..Len(d.columns) : d.dtypes[j] = "object"}),
     column_types |-> d.dtypes]

SmallRows == 100

LargeRows == 10000

HighMissingPct == 20

LowMissingPct == 5

\* the insights with both missing-data thresholds inclusive
generate_smart_insights_inclusive(d, info, issues) ==
    (IF HasIssueType(issues, "extension_mismatch") THEN <<"extension_mismatch">> ELSE <<>>)
    \o (IF HasIssueType(issues, "config_file_detected") THEN <<"config_file">> ELSE <<>>)
    \o (IF info.missing_percentage >= 100 * HighMissingPct THEN <<"high_missing">>
        ELSE IF info.missing_percentage <= 100 * LowMissingPct THEN <<"low_missing">>
        ELSE <<>>)
    \o (IF info.actual_content_type = "json" THEN <<"json_structure">>
        ELSE IF info.actual_content_type = "document" THEN <<"document_content">>
        ELSE <<>>)
    \o (IF Len(d.rows) < SmallRows THEN <<"small_dataset">>
        ELSE IF Len(d.rows) > LargeRows THEN <<"large_dataset">>
        ELSE <<>>)

\* the insights, each named by the rule that emits it
generate_smart_insights(d, info, issues) ==
    (IF HasIssueType(issues, "extension_mismatch") THEN <<"extension_mismatch">> ELSE <<>>)
    \o (IF HasIssueType(issues, "config_file_detected") THEN <<"config_file">> ELSE <<>>)
    \o (IF info.missing_percentage > 100 * HighMissingPct THEN <<"high_missing">>
        ELSE IF info.missing_percentage < 100 * LowMissingPct THEN <<"low_missing">>
        ELSE <<>>)
    \o (IF info.actual_content_type = "json" THEN <<"json_structure">>
        ELSE IF info.actual_content_type = "document" THEN <<"document_content">>
        ELSE <<>>)
    \o (IF Len(d.rows) < SmallRows THEN <<"small_dataset">>
        ELSE IF Len(d.rows) > LargeRows THEN <<"large_dataset">>
        ELSE <<>>)

RecommendMissingPct == 10

HasColumn(d, name) == \E j \in 1..Len(d.columns) : d.columns[j] = name

generate_recommendations(d, info, issues) ==
    (IF HasIssueType(issues, "extension_mismatch")
     THEN <<[category |-> "Format", priority |-> "Medium",
             action |-> "Rename file with correct extension"]>>
     ELSE <<>>)
    \o (IF info.missing_percentage > 100 * RecommendMissingPct
        THEN <<[category |-> "Data Quality", priority |-> "High",
                action |-> "Address missing data before analysis"]>>
        ELSE <<>>)
    \o (IF info.actual_content_type = "json" /\ HasColumn(d, KEY_NAME)
        THEN <<[category |-> "Analysis", priority |-> "Info",
                action |-> "Consider specialized config file analysis"]>>
        ELSE <<>>)

\* the type of structure analyze_content_type reports
analyze_content_type(d, info) ==
    [detected_type |-> info.actual_content_type,
     structure_type |->
        IF info.actual_content_type = "json"
        THEN (IF HasColumn(d, KEY_NAME) /\ HasColumn(d, KEY_VERSION)
              THEN "configuration_file" ELSE "data_object")
        ELSE IF info.actual_content_type = "document"
        THEN (IF HasColumn(d, COL_CONTENT) THEN "text_document" ELSE "none")
        ELSE IF info.actual_content_type = "csv" THEN "tabular_data"
        ELSE "none"]

\* which summaries get_detailed_statistics holds
get_detailed_statistics(d) ==
    [numeric_summary |-> NumericCols(d),
     text_summary |-> {j \in 1..Len(d.columns) : d.dtypes[j] = "object"}]

\* the detailed keys added for every depth but 'basic'
FullDepthResults_unless_basic(d, info, issues, depth) ==
    IF depth # "basic"
    THEN [detailed_statistics |-> get_detailed_statistics(d),
          content_analysis |-> analyze_content_type(d, info),
          recommendations |-> generate_recommendations(d, info, issues)]
    ELSE <<>>

\* if depth == 'full': results.update({...})
FullDepthResults(d, info, issues, depth) ==
    IF depth = "full"
    THEN [detailed_statistics |-> get_detailed_statistics(d),
          content_analysis |-> analyze_content_type(d, info),
          recommendations |-> generate_recommendations(d, info, issues)]
    ELSE <<>>

\* every result analyze_dataset_smart may return when it does not raise
analyze_dataset_smart(d, info, issues, depth) ==
    { [quality_score |->
           [total_score |-> FinalScore(base_score, IssuePenalty(issues)),
            base_score |-> base_score,
            issue_penalty |-> IssuePenalty(issues),
            grade |-> get_score_grade(FinalScore(base_score, IssuePenalty(issues))),
            component_scores |->
                [completeness |-> completeness,
                 consistency |-> consistency,
                 format_compliance |-> 10 * Max(100 - IssuePenalty(issues), 0)]],
       basic_metrics |-> get_smart_basic_metrics(d, info),
       file_structure_analysis |->
           [issues_found |-> Len(issues),
            extension_mismatch |-> info.extension_mismatch,
            actual_content_type |-> info.actual_content_type,
            issues_by_severity |->
                [high |-> CountSeverity(issues, "high"),
                 medium |-> CountSeverity(issues, "medium"),
                 low |-> CountSeverity(issues, "low"),
                 info |-> CountSeverity(issues, "info")],
            detailed_issues |-> issues],
       insights |-> generate_smart_insights(d, info, issues)]
      @@ FullDepthResults(d, info, issues, depth) :
      consistency \in calculate_consistency_score(d),
      completeness \in calculate_completeness_score(d),
      base_score \in UNION {calculate_base_quality_score(d, c) :
                               c \in calculate_consistency_score(d)} }

\* the depths a caller may pass
Depths == {"basic", "full", "quick"}

\* analyze_dataset_smart(df, dataset_info, file_issues, analysis_depth); hashing a
\* dict or list cell (Series.unique) raises TypeError
RunAnalysis ==
    /\ UNCHANGED <<file, declared_extension, content_str, df, actual_content_type,
                   file_issues, trail, dataset_info>>
    /\ \E depth \in Depths :
        /\ analysis_depth' = depth
        /\ IF HasUnhashable(df[1])
           THEN /\ pc' = "analysis_raised"
                /\ exc' = "TypeError"
                /\ results' = results
           ELSE /\ pc' = "analyzed"
                /\ exc' = exc
                /\ \E r \in analyze_dataset_smart(df[1], dataset_info[1], file_issues, depth) :
                       results' = Some(r)

\* the analysis of a table the parser returned
Analyze ==
    /\ pc = "parsed"
    /\ UNCHANGED <<task_vars, upload_vars>>
    /\ RunAnalysis

Next ==
    ReadFile \/ JsonProbe \/ CsvProbe \/ ExcelProbe \/ DocProbe \/ Fallback \/ Check
    \/ Analyze

Spec == Init /\ [][Next]_vars

(***************************************************************************)
(* tasks.py: detect_anomalies, applied to tables of bounded size            *)
(***************************************************************************)
\* bounds on the tables handed to the analyses of tasks.py
MaxRows == 11

MaxCols == 2

\* bound on the number of rows the isolation forest is let flag
MaxFlagged == 2

ColumnKinds == {"int64", "float64", "object"}

TaskColumnName(j) == <<"c">> \o NatStr(j)

\* a table of n rows whose column j has dtype kinds[j]; a float64 column has a
\* NaN in its first row
TaskTable(n, kinds) ==
    DataFrame([j \in 1..Len(kinds) |-> TaskColumnName(j)], kinds,
              [i \in 1..n |->
                  [j \in 1..Len(kinds) |->
                      IF kinds[j] = "object" THEN CStr(NatStr(i % 2))
                      ELSE IF kinds[j] = "float64" /\ i = 1 THEN CNaN
                      ELSE CNum((i * j) % 3)]])

TaskTables ==
    {TaskTable(n, kinds) : n \in 0..MaxRows,
                           kinds \in UNION {[1..c -> ColumnKinds] : c \in 0..MaxCols}}

\* df.select_dtypes(include=[np.number]).fillna(0)
NumericFilled(d) ==
    LET cols == SelectSeq([j \in 1..Len(d.columns) |-> j],
                          LAMBDA j : d.dtypes[j] \in NumericDtypes)
    IN  DataFrame([c \in 1..Len(cols) |-> d.columns[cols[c]]],
                  [c \in 1..Len(cols) |-> d.dtypes[cols[c]]],
                  [i \in 1..Len(d.rows) |->
                      [c \in 1..Len(cols) |->
                          IF IsNull(d.rows[i][cols[c]]) THEN CNum(0)
                          ELSE d.rows[i][cols[c]]]])

MinSamples == 10

\* the threshold test with <= in place of <
TooFewSamples_inclusive(numeric) == Empty(numeric) \/ Len(numeric.rows) <= MinSamples

\* numeric.empty or len(numeric) < 10
TooFewSamples(numeric) == Empty(numeric) \/ Len(numeric.rows) < MinSamples

ZeroAnomalies == [total_anomalies |-> 0, critical |-> 0, moderate |-> 0, examples |-> <<>>]

\* int(total * 0.4)
CriticalShare(total) == (4 * total) \div 10

ExamplesShown == 3

\* the report built from the rows the forest flagged (preds == -1), in row order
AnomalyReport(numeric, flagged) ==
    LET rows  == SelectSeq([i \in 1..Len(numeric.rows) |-> i], LAMBDA i : i \in flagged)
        total == Len(rows)
    IN  [total_anomalies |-> total,
         critical |-> CriticalShare(total),
         moderate |-> total - CriticalShare(total),
         examples |-> [e \in 1..Min(ExamplesShown, total) |-> numeric.rows[rows[e]]]]

\* bound on the rows of the one-column tables handed to analyze_bias
MaxBiasRows == 20

\* bound on the columns of the one-row tables handed to analyze_bias
MaxBiasCols == 11

\* a column of n cells: the value 'a' top times, then nulls NaN, then distinct values
BiasColumn(n, top, nulls) ==
    [i \in 1..n |->
        IF i <= top THEN CStr(<<"a">>)
        ELSE IF i <= top + nulls THEN CNaN
        ELSE CStr(<<"v">> \o NatStr(i))]

\* one object column, every split of its rows into dominant value, nulls and others
BiasTall ==
    {DataFrame(<<TaskColumnName(1)>>, <<"object">>,
               [i \in 1..n |-> <<BiasColumn(n, top, nulls)[i]>>]) :
        <<n, top, nulls>> \in {t \in (0..MaxBiasRows) \X (0..MaxBiasRows) \X (0..MaxBiasRows) :
                                   t[2] + t[3] <= t[1]}}

\* one row; the columns in constant hold a value, the others are null
BiasWide ==
    {DataFrame([j \in 1..c |-> TaskColumnName(j)], [j \in 1..c |-> "object"],
               <<[j \in 1..c |-> IF j \in constant THEN CStr(<<"a">>) ELSE CNone]>>) :
        <<c, constant>> \in UNION {{c} \X SUBSET (1..c) : c \in 0..MaxBiasCols}}

\* tables as pd.read_json gives them: a column of lists beside a column of numbers
BiasNested ==
    {DataFrame(<<TaskColumnName(1), TaskColumnName(2)>>, <<"object", kind>>,
               [i \in 1..n |-> <<CObj(JArr(<<>>)), CNum(0)>>]) :
        n \in 1..2, kind \in {"int64", "float64"}}

\* one numeric column of zeros whose last row holds an outlier
OutlierTables ==
    {DataFrame(<<TaskColumnName(1)>>, <<"int64">>,
               [i \in 1..n |-> <<CNum(IF i = n THEN 100 ELSE 0)>>]) :
        n \in 1..MaxRows}

AnalysisTables == TaskTables \cup BiasTall \cup BiasWide \cup BiasNested \cup OutlierTables

\* value_counts raises TypeError on a cell that cannot be hashed
CountsRaise(d, j) == \E i \in 1..Len(d.rows) : d.rows[i][j].k = "pyobj"

\* the rows value_counts counts: it drops the nulls
Counted(d, j) == {i \in 1..Len(d.rows) : ~IsNull(d.rows[i][j])}

\* the count behind vc.iloc[0], 0 when nothing is counted
TopCount(d, j) ==
    LET count(v) == Cardinality({i \in Counted(d, j) : d.rows[i][j] = v})
        counts   == {count(d.rows[i][j]) : i \in Counted(d, j)} \cup {0}
    IN  CHOOSE m \in counts : \A k \in counts : k <= m

\* the values vc.index[0] may be (one value unless the top count is tied)
TopValues(d, j) ==
    {d.rows[i][j] : i \in {r \in Counted(d, j) :
        Cardinality({q \in Counted(d, j) : d.rows[q][j] = d.rows[r][j]}) = TopCount(d, j)}}

\* the test with >= in place of >
Imbalanced_inclusive(d, j) ==
    /\ ~CountsRaise(d, j)
    /\ Counted(d, j) # {}
    /\ 5 * TopCount(d, j) >= 4 * Cardinality(Counted(d, j))

\* no exception, len(vc) > 0 and vc.iloc[0] > 0.8
Imbalanced(d, j) ==
    /\ ~CountsRaise(d, j)
    /\ Counted(d, j) # {}
    /\ 5 * TopCount(d, j) > 4 * Cardinality(Counted(d, j))

\* str(vc.index[0])
BiasValueStr(c, dtype) ==
    IF c.k = "num" /\ dtype = "float64" THEN NatStr(c.n) \o <<".", "0">> ELSE CellStr(c)

\* the entries imbalanced[col] may be; pct in tenths of a percent
BiasEntries(d, j) ==
    {[field |-> d.columns[j], dominant_value |-> BiasValueStr(v, d.dtypes[j]), pct |-> p] :
        v \in TopValues(d, j),
        p \in RoundSet(1000 * TopCount(d, j), Cardinality(Counted(d, j)))}

\* the sequences that take their i-th element from sets[i]
RECURSIVE SeqProduct(_)
SeqProduct(sets) ==
    IF sets = <<>> THEN {<<>>}
    ELSE {<<x>> \o rest : x \in sets[1], rest \in SeqProduct(Tail(sets))}

\* the score without the max(..., 0)
OverallBiasScore_unclamped(count) == 100 - count * 10

\* max(100 - len(imbalanced) * 10, 0)
OverallBiasScore(count) == Max(100 - count * 10, 0)

\* the reports analyze_bias(df) may return; imbalanced_fields in insertion order
BiasReports(d) ==
    LET cols == SelectSeq([j \in 1..Len(d.columns) |-> j], LAMBDA j : Imbalanced(d, j))
    IN  {[overall_bias_score |-> OverallBiasScore(Len(fields)),
          bias_issues |-> [c \in 1..Len(fields) |-> fields[c].field],
          imbalanced_fields |-> fields] :
            fields \in SeqProduct([c \in 1..Len(cols) |-> BiasEntries(d, cols[c])])}

InitTasks ==
    /\ file = TextFile(<<>>)
    /\ declared_extension = ".csv"
    /\ pc = "tasks"
    /\ content_str = <<>>
    /\ df = None
    /\ actual_content_type = "None"
    /\ file_issues = <<>>
    /\ trail = <<>>
    /\ dataset_info = None
    /\ exc = "None"
    /\ analysis_depth = "None"
    /\ results = None
    /\ task_df \in AnalysisTables
    /\ iso_fitted = FALSE
    /\ anomaly_report = None
    /\ bias_report = None
    /\ consistency_result = None
    /\ request = DirectCall
    /\ stored = FALSE
    /\ record = "None"
    /\ response = None
    /\ key_insights = None

\* detect_anomalies without its except clause: a failure of fit_predict reaches the caller
detect_anomalies_propagating ==
    /\ pc = "tasks"
    /\ anomaly_report = None
    /\ UNCHANGED <<file, declared_extension, content_str, df, actual_content_type,
                   file_issues, trail, dataset_info, analysis_depth, results,
                   task_df, bias_report, consistency_result, upload_vars>>
    /\ LET numeric == NumericFilled(task_df) IN
       IF TooFewSamples(numeric)
       THEN /\ anomaly_report' = Some(ZeroAnomalies)
            /\ iso_fitted' = FALSE
            /\ UNCHANGED <<pc, exc>>
       ELSE /\ iso_fitted' = TRUE
            /\ \/ \E flagged \in SUBSET (1..Len(numeric.rows)) :
                     /\ Cardinality(flagged) <= MaxFlagged
                     /\ anomaly_report' = Some(AnomalyReport(numeric, flagged))
                     /\ UNCHANGED <<pc, exc>>
               \/ /\ pc' = "raised"
                  /\ exc' = "Exception"
                  /\ UNCHANGED anomaly_report

\* detect_anomalies(df).  What IsolationForest(contamination=0.1, random_state=42)
\* flags is left open (any set of at most MaxFlagged rows), and so is whether
\* fit_predict raises, which the except clause turns into the zero report.
detect_anomalies ==
    /\ pc = "tasks"
    /\ anomaly_report = None
    /\ UNCHANGED <<parser_vars, pc, task_df, bias_report, consistency_result, upload_vars>>
    /\ LET numeric == NumericFilled(task_df) IN
       IF TooFewSamples(numeric)
       THEN /\ anomaly_report' = Some(ZeroAnomalies)
            /\ iso_fitted' = FALSE
       ELSE /\ iso_fitted' = TRUE
            /\ \/ \E flagged \in SUBSET (1..Len(numeric.rows)) :
                     /\ Cardinality(flagged) <= MaxFlagged
                     /\ anomaly_report' = Some(AnomalyReport(numeric, flagged))
               \/ anomaly_report' = Some(ZeroAnomalies)

\* analyze_bias(df)
analyze_bias ==
    /\ pc = "tasks"
    /\ bias_report = None
    /\ \E report \in BiasReports(task_df) : bias_report' = Some(report)
    /\ UNCHANGED <<parser_vars, pc, task_df, iso_fitted, anomaly_report,
                   consistency_result, upload_vars>>

NextTasks == detect_anomalies \/ analyze_bias

SpecTasks == InitTasks /\ [][NextTasks]_vars

(***************************************************************************)
(* Properties                                                               *)
(***************************************************************************)
InTrail(probe) == \E i \in 1..Len(trail) : trail[i] = probe

\* smart_file_parser has returned its triple
ParserReturned == pc \in {"parsed", "analyzed", "analysis_raised"}

\* C1: whenever the parser returned a table and analyze_dataset_smart completed,
\* total_score lies in 0..100 and the grade is the band of total_score
\* (A >= 90, B >= 80, C >= 70, D >= 60, else F, lower edges inclusive).
C1_ScoreRangeAndGrade ==
    pc = "analyzed" =>
        LET q == results[1].quality_score IN
        /\ 0 <= q.total_score /\ q.total_score <= 1000
        /\ (q.grade = "A") <=> (q.total_score >= 900)
        /\ (q.grade = "B") <=> (800 <= q.total_score /\ q.total_score < 900)
        /\ (q.grade = "C") <=> (700 <= q.total_score /\ q.total_score < 800)
        /\ (q.grade = "D") <=> (600 <= q.total_score /\ q.total_score < 700)
        /\ (q.grade = "F") <=> (q.total_score < 600)

\* C1 witness: an analysis that ends exactly on the lower edge of band A
C1_Witness ==
    /\ pc = "analyzed"
    /\ results[1].quality_score.total_score = 900
    /\ results[1].quality_score.grade = "A"

IsPackageJsonAsCsv ==
    file.bytes \in {PackageJson, test_content} /\ declared_extension = ".csv"

\* what C2 states apart from the penalty: JSON detected, one row, a medium
\* extension-mismatch issue
PackageJsonParsed ==
    /\ actual_content_type = "json"
    /\ dataset_info[1].actual_content_type = "json"
    /\ Len(df[1].rows) = 1
    /\ \E i \in 1..Len(file_issues) :
           file_issues[i].type = "extension_mismatch" /\ file_issues[i].severity = "medium"

\* C2 as stated: {"name":"test","version":"1.0.0"} declared .csv is detected as
\* JSON, gives one row and a medium extension-mismatch issue, and issue_penalty = 5.
C2_AsStated ==
    (IsPackageJsonAsCsv /\ pc = "analyzed") =>
        (PackageJsonParsed /\ results[1].quality_score.issue_penalty = 5)

\* C2 amended: the same input is detected as JSON with one row, and its issues are
\* the medium extension mismatch followed by the info config-file issue, so that
\* issue_penalty = 6.
C2_PackageJsonPenalty ==
    /\ IsPackageJsonAsCsv => pc \notin {"raised", "analysis_raised"}
    /\ (IsPackageJsonAsCsv /\ pc = "analyzed") =>
          /\ PackageJsonParsed
          /\ Len(file_issues) = 2
          /\ file_issues[1].type = "extension_mismatch"
          /\ file_issues[2].type = "config_file_detected"
          /\ file_issues[2].severity = "info"
          /\ results[1].quality_score.issue_penalty = 6

C2_Witness == IsPackageJsonAsCsv /\ pc = "analyzed"

\* C3: for every declared extension, zero bytes of input make the parser fail; it
\* never returns a table for empty input.
C3_EmptyInputFails == file.bytes = <<>> => ~ParserReturned

\* C4: non-empty input that no earlier probe parsed is parsed by the line
\* fallback, which never fails: the table has at least one row and a column
\* 'content', and the detected content type is 'text'.
C4_FallbackSucceeds ==
    (file.bytes # <<>> /\ InTrail("text")) =>
        /\ pc # "raised"
        /\ df # None
        /\ Len(df[1].rows) >= 1
        /\ HasColumn(df[1], COL_CONTENT)
        /\ actual_content_type = "text"
        /\ ParserReturned => dataset_info[1].actual_content_type = "text"

\* C4 witness: the fallback has parsed non-empty input that the CSV probe failed on
C4_Witness ==
    /\ file.bytes # <<>>
    /\ InTrail("text")
    /\ CsvSniffed
    /\ ParserReturned

\* C5: whenever the input bytes are non-empty the parser returns a table and does
\* not raise its parse error, also when an earlier probe built an empty table.
C5_NonEmptyInputNeverFails ==
    file.bytes # <<>> => ~(pc = "raised" /\ exc = "ValueError")

\* a probe's library call raised inside its try block
ProbeThrew ==
    \/ InTrail("csv") /\ CsvSniffed /\ ~read_csv(content_str).ok
    \/ InTrail("excel") /\ file.excel = None
    \/ InTrail("document") /\ declared_extension = ".docx" /\ file.mammoth = None

\* C6: a probe that fails internally does not end the parser, and leaves an issue
\* of severity high in the issues list.
C6_ProbeFailureRecorded ==
    ProbeThrew =>
        /\ ~(pc = "raised" /\ exc # "ValueError")
        /\ \E i \in 1..Len(file_issues) : file_issues[i].severity = "high"

ProbeOrder == <<"json", "csv", "excel", "document", "text">>

ProbeRank(probe) == CHOOSE i \in 1..Len(ProbeOrder) : ProbeOrder[i] = probe

\* the probe that emits an issue, told by its type and message
IssueProbe(issue) ==
    IF issue.type = "extension_mismatch"
    THEN (IF issue.message[1] = "File contains JSON but has " THEN "json" ELSE "csv")
    ELSE IF issue.type = "config_file_detected" THEN "json"
    ELSE IF issue.type = "report_format" THEN "csv"
    ELSE IF issue.type = "document_parsed" THEN "document"
    ELSE IF issue.type = "fallback_parsing" THEN "text"
    ELSE "unknown"

C7_State ==
    /\ \A i \in 1..(Len(trail) - 1) : ProbeRank(trail[i]) < ProbeRank(trail[i + 1])
    /\ df # None =>
          /\ trail # <<>>
          /\ actual_content_type = trail[Len(trail)]
          /\ \A i \in 1..Len(file_issues) : IssueProbe(file_issues[i]) = actual_content_type

C7_Step ==
    df # None =>
        /\ trail' = trail
        /\ df' = df
        /\ actual_content_type' = actual_content_type
        /\ file_issues' = file_issues

\* C7: the probes run in the order JSON, CSV, spreadsheet, document, line
\* fallback; once a probe has produced the table no later probe runs and the
\* table, the content type and the issues stay as they are; the content type is
\* the winning probe's and every issue was emitted by the winning probe.
C7_ProbeChain == []C7_State /\ [][C7_Step]_vars

\* C7 witness: the parser returned after two probes failed and the third won
C7_Witness ==
    /\ ParserReturned
    /\ trail = <<"json", "csv", "text">>
    /\ ~json_loads(content_str).ok
    /\ file_issues # <<>>

IsRoundTripCsv == file.bytes = RoundTripCsv /\ declared_extension = ".csv"

\* C9: col1,col2 / 1,2 / 3,4 declared .csv is parsed into 2 columns and 2 rows
\* holding 1,2 and 3,4, with no missing cell and no structural issue, and its
\* completeness score is 100.
C9_RoundTrip ==
    /\ IsRoundTripCsv => pc \notin {"raised", "analysis_raised"}
    /\ (IsRoundTripCsv /\ ParserReturned) =>
          /\ df[1].columns = <<<<"c", "o", "l", "1">>, <<"c", "o", "l", "2">>>>
          /\ df[1].rows = << <<CNum(1), CNum(2)>>, <<CNum(3), CNum(4)>> >>
          /\ dataset_info[1].rows = 2
          /\ dataset_info[1].columns = 2
          /\ MissingCells(df[1]) = 0
          /\ dataset_info[1].missing_percentage = 0
          /\ file_issues = <<>>
    /\ (IsRoundTripCsv /\ pc = "analyzed") =>
          results[1].quality_score.component_scores.completeness = 1000

C9_Witness == IsRoundTripCsv /\ pc = "analyzed"

\* C10: detect_anomalies returns the zero report, without running the outlier
\* pass, whenever the table has no numeric column or fewer than 10 rows; with 10
\* rows or more and a numeric column the outlier pass is run.
C10_AnomalyThreshold ==
    anomaly_report # None =>
        /\ (NumericCols(task_df) = {} \/ Len(task_df.rows) < 10) =>
              (anomaly_report[1] = ZeroAnomalies /\ ~iso_fitted)
        /\ (NumericCols(task_df) # {} /\ Len(task_df.rows) >= 10) => iso_fitted

\* C10 witness: exactly 10 rows, a numeric column, and rows flagged by the pass
C10_Witness ==
    /\ anomaly_report # None
    /\ Len(task_df.rows) = 10
    /\ NumericCols(task_df) # {}
    /\ iso_fitted
    /\ anomaly_report[1].total_anomalies > 0

\* the number of rows of task_df whose cell in column j is v
Occurrences(j, v) == Cardinality({i \in 1..Len(task_df.rows) : task_df.rows[i][j] = v})

NonNullCount(j) ==
    Cardinality({i \in 1..Len(task_df.rows) : ~IsNull(task_df.rows[i][j])})

Hashable(j) == \A i \in 1..Len(task_df.rows) : task_df.rows[i][j].k # "pyobj"

\* some non-null value of column j fills more than 80% of total
DominatesOver(j, total) ==
    \E i \in 1..Len(task_df.rows) :
        /\ ~IsNull(task_df.rows[i][j])
        /\ 5 * Occurrences(j, task_df.rows[i][j]) > 4 * total

IsFlagged(j) ==
    \E c \in 1..Len(bias_report[1].bias_issues) :
        bias_report[1].bias_issues[c] = task_df.columns[j]

\* entry e records a value of column j that fills more than 80% of total, and
\* that share as a percentage rounded to one decimal
RecordsShare(e, j, total) ==
    \E i \in 1..Len(task_df.rows) :
        LET v == task_df.rows[i][j] IN
        /\ ~IsNull(v)
        /\ 5 * Occurrences(j, v) > 4 * total
        /\ e.dominant_value = BiasValueStr(v, task_df.dtypes[j])
        /\ 2 * e.pct * total <= 2000 * Occurrences(j, v) + total
        /\ 2 * e.pct * total >= 2000 * Occurrences(j, v) - total

\* C11 as stated: analyze_bias flags a column exactly when its most frequent
\* value occupies more than 80% of the rows, and the entry records that value
\* and its share of the rows.
C11_AsStated ==
    bias_report # None =>
        /\ \A j \in 1..Len(task_df.columns) :
               IsFlagged(j) <=> DominatesOver(j, Len(task_df.rows))
        /\ \A c \in 1..Len(bias_report[1].imbalanced_fields) :
               \E j \in 1..Len(task_df.columns) :
                   /\ task_df.columns[j] = bias_report[1].imbalanced_fields[c].field
                   /\ RecordsShare(bias_report[1].imbalanced_fields[c], j, Len(task_df.rows))

\* C11 amended: analyze_bias flags a column exactly when its values can be
\* counted (none is a list or a dict) and its most frequent value occupies more
\* than 80% of the column's non-null cells (exactly 80% is not flagged); the
\* entry records that value and that share, so a value in 85% of the rows of a
\* column without nulls is recorded with 85.0.
C11_DominantShare ==
    bias_report # None =>
        /\ \A j \in 1..Len(task_df.columns) :
               IsFlagged(j) <=> (Hashable(j) /\ DominatesOver(j, NonNullCount(j)))
        /\ \A c \in 1..Len(bias_report[1].imbalanced_fields) :
               \E j \in 1..Len(task_df.columns) :
                   /\ task_df.columns[j] = bias_report[1].imbalanced_fields[c].field
                   /\ RecordsShare(bias_report[1].imbalanced_fields[c], j, NonNullCount(j))

\* C11 witness: 17 of 20 rows hold the same value and the column is flagged with 85.0
C11_Witness ==
    /\ bias_report # None
    /\ Len(task_df.rows) = 20
    /\ Len(task_df.columns) = 1
    /\ NonNullCount(1) = 20
    /\ Occurrences(1, CStr(<<"a">>)) = 17
    /\ bias_report[1].bias_issues = <<task_df.columns[1]>>
    /\ bias_report[1].imbalanced_fields[1].dominant_value = <<"a">>
    /\ bias_report[1].imbalanced_fields[1].pct = 850

\* C12: detect_anomalies and analyze_bias never raise to their caller: for every
\* table, also one without numeric columns, with all-null columns, or on which
\* the outlier model fails, each returns, detect_anomalies a report with keys
\* total_anomalies, critical, moderate, examples and analyze_bias one with
\* overall_bias_score, bias_issues, imbalanced_fields.
C12_NeverRaise ==
    /\ exc = "None"
    /\ pc = "tasks"
    /\ BiasReports(task_df) # {}
    /\ anomaly_report # None =>
           /\ DOMAIN anomaly_report[1] =
                  {"total_anomalies", "critical", "moderate", "examples"}
           /\ anomaly_report[1].total_anomalies \in Nat
           /\ anomaly_report[1].critical \in Nat
           /\ anomaly_report[1].moderate \in Nat
    /\ bias_report # None =>
           DOMAIN bias_report[1] =
               {"overall_bias_score", "bias_issues", "imbalanced_fields"}

\* C12 witness: the outlier model was run and ended with the zero report, on a
\* table that also has a null cell, and both reports were returned
C12_Witness ==
    /\ pc = "tasks"
    /\ iso_fitted
    /\ anomaly_report = Some(ZeroAnomalies)
    /\ bias_report # None
    /\ MissingCells(task_df) > 0

\* the columns of task_df that the claims call imbalanced, in column order
DominatedColumns ==
    SelectSeq([j \in 1..Len(task_df.columns) |-> j],
              LAMBDA j : Hashable(j) /\ DominatesOver(j, NonNullCount(j)))

\* C18: overall_bias_score = max(100 - 10 x flagged_count, 0) with flagged_count
\* the number of flagged columns; it lies in 0..100, is 100 iff nothing is
\* flagged, and bias_issues lists exactly the names of the flagged columns.
C18_BiasScore ==
    bias_report # None =>
        LET r     == bias_report[1]
            count == Len(r.imbalanced_fields)
        IN  /\ r.overall_bias_score = (IF 10 * count >= 100 THEN 0 ELSE 100 - 10 * count)
            /\ r.overall_bias_score \in 0..100
            /\ (r.overall_bias_score = 100) <=> (count = 0)
            /\ count = Len(DominatedColumns)
            /\ r.bias_issues = [c \in 1..count |-> r.imbalanced_fields[c].field]
            /\ r.bias_issues = [c \in 1..Len(DominatedColumns) |->
                                   task_df.columns[DominatedColumns[c]]]

\* C18 witness: eleven flagged columns, the score held at 0
C18_Witness ==
    /\ bias_report # None
    /\ Len(bias_report[1].bias_issues) = 11
    /\ bias_report[1].overall_bias_score = 0

\* sum and sum of squares of numeric column j of table d
RECURSIVE ColumnSum(_, _, _)
ColumnSum(d, j, n) == IF n = 0 THEN 0 ELSE d.rows[n][j].n + ColumnSum(d, j, n - 1)

RECURSIVE ColumnSumSq(_, _, _)
ColumnSumSq(d, j, n) ==
    IF n = 0 THEN 0 ELSE d.rows[n][j].n * d.rows[n][j].n + ColumnSumSq(d, j, n - 1)

\* |row[j] - mean_j| > 3 * std_k (sample standard deviation), without division
DeviatesBeyond(d, row, j, k) ==
    LET n  == Len(d.rows)
        dj == n * row[j].n - ColumnSum(d, j, n)
        vk == n * ColumnSumSq(d, k, n) - ColumnSum(d, k, n) * ColumnSum(d, k, n)
    IN  dj * dj * (n - 1) > 9 * n * vk

\* the row's largest deviation exceeds 3 times the largest standard deviation
IsCriticalRow(d, row) ==
    \E j \in 1..Len(d.columns) : \A k \in 1..Len(d.columns) : DeviatesBeyond(d, row, j, k)

\* C19: the critical count of the report is the number of anomalous rows whose
\* maximum per-column absolute deviation from the column mean exceeds 3 times the
\* maximum standard deviation across the numeric columns, each row classified on
\* its own, and the moderate count is the number of the other anomalous rows.
C19_RowClassification ==
    (anomaly_report # None /\ iso_fitted
        /\ anomaly_report[1].total_anomalies = Len(anomaly_report[1].examples)) =>
        LET r        == anomaly_report[1]
            numeric  == NumericFilled(task_df)
            critical == {e \in 1..Len(r.examples) : IsCriticalRow(numeric, r.examples[e])}
        IN  /\ r.critical = Cardinality(critical)
            /\ r.moderate = r.total_anomalies - Cardinality(critical)

\* C16: total_score = max(base_score - issue_penalty, 0), where issue_penalty is
\* 10 for each high, 5 for each medium and 1 for each other issue of the list,
\* whatever the order and the types of the issues.
C16_PenaltyFormula ==
    pc = "analyzed" =>
        LET q      == results[1].quality_score
            high   == Cardinality({i \in 1..Len(file_issues) : file_issues[i].severity = "high"})
            medium == Cardinality({i \in 1..Len(file_issues) : file_issues[i].severity = "medium"})
            other  == Len(file_issues) - high - medium
        IN  /\ q.issue_penalty = 10 * high + 5 * medium + other
            /\ q.total_score = (IF q.base_score >= 10 * q.issue_penalty
                                THEN q.base_score - 10 * q.issue_penalty ELSE 0)

\* C16 witness: a penalty larger than a positive base score, the total held at 0
C16_Witness ==
    /\ pc = "analyzed"
    /\ results[1].quality_score.base_score > 0
    /\ results[1].quality_score.base_score < 10 * results[1].quality_score.issue_penalty
    /\ results[1].quality_score.total_score = 0

(***************************************************************************)
(* calculate_consistency_score applied to a table                          *)
(***************************************************************************)
InitScore ==
    /\ file = TextFile(<<>>)
    /\ declared_extension = ".csv"
    /\ pc = "score"
    /\ content_str = <<>>
    /\ df = None
    /\ actual_content_type = "None"
    /\ file_issues = <<>>
    /\ trail = <<>>
    /\ dataset_info = None
    /\ exc = "None"
    /\ analysis_depth = "None"
    /\ results = None
    /\ task_df \in AnalysisTables
    /\ iso_fitted = FALSE
    /\ anomaly_report = None
    /\ bias_report = None
    /\ consistency_result = None
    /\ request = DirectCall
    /\ stored = FALSE
    /\ record = "None"
    /\ response = None
    /\ key_insights = None

\* calculate_consistency_score(df); non_null.unique() raises on a list or dict cell
ScoreConsistency ==
    /\ pc = "score"
    /\ UNCHANGED <<file, declared_extension, content_str, df, actual_content_type,
                   file_issues, trail, dataset_info, analysis_depth, results,
                   task_df, iso_fitted, anomaly_report, bias_report, upload_vars>>
    /\ IF ~Empty(task_df) /\ HasUnhashable(task_df)
       THEN /\ pc' = "raised"
            /\ exc' = "TypeError"
            /\ UNCHANGED consistency_result
       ELSE /\ pc' = "scored"
            /\ exc' = exc
            /\ \E score \in calculate_consistency_score(task_df) :
                   consistency_result' = Some(score)

NextScore == ScoreConsistency

SpecScore == InitScore /\ [][NextScore]_vars

DistinctNonNull(j) ==
    Cardinality({task_df.rows[i][j] : i \in {r \in 1..Len(task_df.rows) :
                                                 ~IsNull(task_df.rows[r][j])}})

\* the contribution the claim gives to column j, as <<numerator, denominator>>
StatedContribution(j) ==
    IF task_df.dtypes[j] # "object" THEN <<90, 1>>
    ELSE IF NonNullCount(j) > 0 /\ 5 * DistinctNonNull(j) > 4 * NonNullCount(j)
    THEN <<100 * (NonNullCount(j) - DistinctNonNull(j)), NonNullCount(j)>>
    ELSE <<80, 1>>

\* score (in tenths) is the mean of terms rounded to one decimal
IsRoundedMean(score, terms) ==
    LET total == SumFractions(terms)
        den   == total[2] * Len(terms)
    IN  /\ 2 * score * den <= 20 * total[1] + den
        /\ 2 * score * den >= 20 * total[1] - den

\* C17 as stated: the consistency score is the mean of one contribution per
\* column, 90 for a numeric column, (1 - ratio) x 100 for a categorical column
\* whose ratio of distinct to non-null values exceeds 0.8 and 80 otherwise; with
\* an empty column set it is 50.
C17_AsStated ==
    consistency_result # None =>
        IF Len(task_df.columns) = 0 THEN consistency_result[1] = 500
        ELSE IsRoundedMean(consistency_result[1],
                           [j \in 1..Len(task_df.columns) |-> StatedContribution(j)])

\* C17 amended: a table with no rows or no columns scores 0; otherwise the score
\* is the mean, rounded to one decimal, over the columns that are not object
\* columns (90 each) and the object columns with at least one non-null value
\* ((1 - ratio) x 100 if the ratio exceeds 0.8, else 80); when no column
\* contributes, every column being an all-null object column, the score is 50.
C17_Consistency ==
    consistency_result # None =>
        LET contributing ==
                SelectSeq([j \in 1..Len(task_df.columns) |-> j],
                          LAMBDA j : task_df.dtypes[j] # "object" \/ NonNullCount(j) > 0)
        IN  IF Len(task_df.rows) = 0 \/ Len(task_df.columns) = 0
            THEN consistency_result[1] = 0
            ELSE IF contributing = <<>>
            THEN consistency_result[1] = 500
            ELSE IsRoundedMean(consistency_result[1],
                     [c \in 1..Len(contributing) |-> StatedContribution(contributing[c])])

\* C17 witness: a table whose columns are all null scores 50
C17_Witness ==
    /\ consistency_result = Some(500)
    /\ Len(task_df.rows) >= 1
    /\ Len(task_df.columns) >= 2
    /\ \A j \in 1..Len(task_df.columns) : NonNullCount(j) = 0

\* the sampled lines of the claim: the first 10 non-empty lines of the preview
SampledLines ==
    Prefix(SelectSeq(Split(content_preview, "\n"), LAMBDA line : Strip(line) # <<>>), 10)

\* at least one comma in more than half of the sampled lines
MajorityHaveComma ==
    2 * Cardinality({i \in 1..Len(SampledLines) : Count(SampledLines[i], ",") >= 1})
        > Len(SampledLines)

ParsedAsCsv == actual_content_type = "csv"

\* C20: when the JSON probe produced no table, the content is parsed as a
\* header-first comma-delimited table iff a comma occurs in the majority of the
\* sampled lines or the declared extension is .csv (and the table can be read);
\* and whenever it is so parsed under another extension, exactly one
\* medium-severity extension-mismatch issue is emitted.
C20_CsvSniffRule ==
    InTrail("csv") =>
        /\ ParsedAsCsv => (MajorityHaveComma \/ declared_extension = ".csv")
        /\ ((MajorityHaveComma \/ declared_extension = ".csv") /\ read_csv(content_str).ok)
               => ParsedAsCsv
        /\ (ParsedAsCsv /\ declared_extension # ".csv") =>
               Cardinality({i \in 1..Len(file_issues) :
                               /\ file_issues[i].type = "extension_mismatch"
                               /\ file_issues[i].severity = "medium"}) = 1

(***************************************************************************)
(* upload_dataset and process_uploaded_file_smart                          *)
(***************************************************************************)
MAX_FILE_SIZE == 100 * 1024 * 1024

\* extensions a file name may carry: the allowed ones, two others, and none
UploadExtensions == ALLOWED_EXTENSIONS \cup {".pdf", ".exe", ""}

UploadFiles == {f \in Files : f.bytes \in CuratedTexts \cup ZipBytes}

InitUpload ==
    /\ file \in UploadFiles
    /\ declared_extension \in UploadExtensions
    /\ pc = "request"
    /\ content_str = <<>>
    /\ df = None
    /\ actual_content_type = "None"
    /\ file_issues = <<>>
    /\ trail = <<>>
    /\ dataset_info = None
    /\ exc = "None"
    /\ analysis_depth = "None"
    /\ results = None
    /\ task_df = DataFrame(<<>>, <<>>, <<>>)
    /\ iso_fitted = FALSE
    /\ anomaly_report = None
    /\ bias_report = None
    /\ consistency_result = None
    /\ request \in
           {[has_file |-> TRUE, size |-> size, strict_format |-> strict] :
                size \in {Len(file.bytes), MAX_FILE_SIZE + 1}, strict \in BOOLEAN}
           \cup (IF file.bytes = <<>> /\ declared_extension = "" THEN {DirectCall} ELSE {})
    /\ stored = FALSE
    /\ record = "None"
    /\ response = None
    /\ key_insights = None

\* the except clauses of upload_dataset around process_uploaded_file_smart
ErrorResponse(e) ==
    IF e = "ValueError"
    THEN [status |-> 400, error_code |-> "VALIDATION_ERROR"]
    ELSE [status |-> 500, error_code |-> "PROCESSING_ERROR"]

\* Response(result, status=status.HTTP_200_OK)
SuccessResponse == [status |-> 200, error_code |-> "None"]

\* upload_dataset up to the call of process_uploaded_file_smart
upload_dataset ==
    /\ pc = "request"
    /\ UNCHANGED <<parser_vars, task_vars, request, stored, record, key_insights>>
    /\ IF ~request.has_file
       THEN /\ response' = Some([status |-> 400, error_code |-> "NO_FILE"])
            /\ pc' = "responded"
       ELSE /\ pc' = "validate"
            /\ UNCHANGED response

\* the checks without the size ceiling
Validate_without_size_check ==
    /\ pc = "validate"
    /\ UNCHANGED <<file, declared_extension, content_str, df, actual_content_type,
                   file_issues, trail, dataset_info, analysis_depth, results,
                   task_vars, request, stored, record, key_insights>>
    /\ IF declared_extension \notin ALLOWED_EXTENSIONS
       THEN /\ exc' = "ValueError"
            /\ response' = Some(ErrorResponse("ValueError"))
            /\ pc' = "responded"
       ELSE /\ pc' = "start"
            /\ UNCHANGED <<exc, response>>

\* the checks of process_uploaded_file_smart before it calls the parser
Validate ==
    /\ pc = "validate"
    /\ UNCHANGED <<file, declared_extension, content_str, df, actual_content_type,
                   file_issues, trail, dataset_info, analysis_depth, results,
                   task_vars, request, stored, record, key_insights>>
    /\ IF declared_extension \notin ALLOWED_EXTENSIONS \/ request.size > MAX_FILE_SIZE
       THEN /\ exc' = "ValueError"
            /\ response' = Some(ErrorResponse("ValueError"))
            /\ pc' = "responded"
       ELSE /\ pc' = "start"
            /\ UNCHANGED <<exc, response>>

\* an exception of smart_file_parser reaches upload_dataset
ParserRaised ==
    /\ pc = "raised"
    /\ request.has_file
    /\ pc' = "responded"
    /\ response' = Some(ErrorResponse(exc))
    /\ UNCHANGED <<parser_vars, task_vars, request, stored, record, key_insights>>

\* the strict_format test, default_storage.save and DatasetAnalysis.objects.create
CreateRecord ==
    /\ pc = "parsed"
    /\ request.has_file
    /\ UNCHANGED <<file, declared_extension, content_str, df, actual_content_type,
                   file_issues, trail, dataset_info, analysis_depth, results,
                   task_vars, request, key_insights>>
    /\ IF request.strict_format /\ CountSeverity(file_issues, "high") > 0
       THEN /\ exc' = "ValueError"
            /\ response' = Some(ErrorResponse("ValueError"))
            /\ pc' = "responded"
            /\ UNCHANGED <<stored, record>>
       ELSE /\ stored' = TRUE
            /\ record' = "processing"
            /\ pc' = "created"
            /\ UNCHANGED <<exc, response>>

\* analyze_dataset_smart inside the try block
AnalyzeRecord ==
    /\ pc = "created"
    /\ UNCHANGED <<task_vars, upload_vars>>
    /\ RunAnalysis

\* issue_insights + all_insights: the messages of the high and medium issues,
\* then the insights of the results
KeyInsights(issues, insights) ==
    LET shown == SelectSeq(issues, LAMBDA issue : issue.severity \in {"high", "medium"}) IN
    [i \in 1..Len(shown) |-> [from |-> "issue", text |-> shown[i].message]]
    \o [i \in 1..Len(insights) |-> [from |-> "rule", text |-> insights[i]]]

\* a record that stores the insights of the results before the issue messages
FinishRecord_insights_first ==
    /\ pc = "analyzed"
    /\ record = "processing"
    /\ record' = "completed"
    /\ key_insights' = Some(KeyInsights(<<>>, results[1].insights)
                            \o KeyInsights(file_issues, <<>>))
    /\ response' = Some(SuccessResponse)
    /\ pc' = "responded"
    /\ UNCHANGED <<parser_vars, task_vars, request, stored>>

\* analysis.status = 'completed', key_insights, analysis.save() and the response
FinishRecord ==
    /\ pc = "analyzed"
    /\ record = "processing"
    /\ record' = "completed"
    /\ key_insights' = Some(KeyInsights(file_issues, results[1].insights))
    /\ response' = Some(SuccessResponse)
    /\ pc' = "responded"
    /\ UNCHANGED <<parser_vars, task_vars, request, stored>>

\* except Exception: analysis.status = 'failed', analysis.save(), raise e
FailRecord ==
    /\ pc = "analysis_raised"
    /\ record = "processing"
    /\ record' = "failed"
    /\ response' = Some(ErrorResponse(exc))
    /\ pc' = "responded"
    /\ UNCHANGED <<parser_vars, task_vars, request, stored, key_insights>>

NextUpload ==
    \/ upload_dataset
    \/ Validate
    \/ ReadFile
    \/ JsonProbe
    \/ CsvProbe
    \/ ExcelProbe
    \/ DocProbe
    \/ Fallback
    \/ Check
    \/ ParserRaised
    \/ CreateRecord
    \/ AnalyzeRecord
    \/ FinishRecord
    \/ FailRecord

SpecUpload == InitUpload /\ [][NextUpload]_vars

(***************************************************************************)
(* Properties of the upload endpoint                                       *)
(***************************************************************************)
\* the request carries a file that process_uploaded_file_smart must reject
MustReject ==
    /\ request.has_file
    /\ \/ declared_extension \notin ALLOWED_EXTENSIONS
       \/ request.size > MAX_FILE_SIZE

\* the request has been answered with the given error code
FailedWith(code) ==
    /\ pc = "responded"
    /\ response # None
    /\ response[1].error_code = code

\* C13: an upload whose extension is not allowed, or whose size exceeds
\* 100 MiB, never reaches the parser, stores no file and creates no record,
\* and is answered with a validation error (status 400, VALIDATION_ERROR).
C13_RejectedBeforeCore ==
    MustReject =>
        /\ pc \in {"request", "validate", "responded"}
        /\ trail = <<>>
        /\ content_str = <<>>
        /\ df = None
        /\ dataset_info = None
        /\ results = None
        /\ ~stored
        /\ record = "None"
        /\ pc = "responded" =>
               response = Some([status |-> 400, error_code |-> "VALIDATION_ERROR"])

\* an answered upload with an allowed extension and a size over the ceiling
C13_Witness ==
    /\ pc = "responded"
    /\ request.has_file
    /\ declared_extension \in ALLOWED_EXTENSIONS
    /\ request.size > MAX_FILE_SIZE
    /\ FailedWith("VALIDATION_ERROR")

\* C14: a successful upload of a well-formed CSV file is answered with HTTP
\* status 202, and at that moment its record has status 'completed'.
C14_AcceptedAndCompleted ==
    (/\ pc = "responded"
     /\ request.has_file
     /\ IsRoundTripCsv
     /\ request.size <= MAX_FILE_SIZE)
        => /\ response # None
           /\ response[1].status = 202
           /\ record = "completed"

\* C15: a failed upload is in one of exactly two states, told apart by when
\* the failure occurred: VALIDATION_ERROR with no record for the request, or
\* PROCESSING_ERROR with the record of the request marked 'failed'.
C15_FailurePartition ==
    (/\ pc = "responded"
     /\ request.has_file
     /\ response # None
     /\ response[1].error_code # "None")
        => \/ /\ response[1].error_code = "VALIDATION_ERROR"
              /\ record = "None"
           \/ /\ response[1].error_code = "PROCESSING_ERROR"
              /\ record = "failed"

(***************************************************************************)
(* Properties of the probes and of the report, flattening and insight rules *)
(***************************************************************************)
\* C21: tab-delimited content without commas is parsed header-first as a
\* tab-delimited table by a probe that precedes the spreadsheet, document and
\* line-fallback probes, so a well-formed tab-separated file is returned as
\* a multi-column table and not as the line-fallback table.
C21_TabProbe ==
    (file.bytes = TabTable /\ ParserReturned) =>
        /\ ~InTrail("text")
        /\ df[1].columns = << <<"a">>, <<"b">> >>
        /\ Len(df[1].rows) = 1

(***************************************************************************)
(* parse_analysis_report applied to reports of a few lines                  *)
(***************************************************************************)
MaxReportLines == 3

\* the lines reports are made of: two labels (one quoted), data lines with
\* and without a comma, data lines with an empty part, and a blank line
ReportLineKinds ==
    { SEC_QUALITY,
      <<"\"">> \o SEC_BIAS \o <<"\"">>,
      <<"a", ",", " ", "1", ",", "2">>,
      <<"a", ",">>,
      <<",", "1">>,
      <<"x">>,
      <<" ">> }

ReportTexts ==
    { Join(<<"\n">>, ls) : ls \in UNION {[1..n -> ReportLineKinds] : n \in 1..MaxReportLines} }

InitReport ==
    /\ file \in {TextFile(t) : t \in ReportTexts}
    /\ declared_extension = ".csv"
    /\ pc = "report"
    /\ content_str = file.bytes
    /\ df = None
    /\ actual_content_type = "csv"
    /\ file_issues = <<>>
    /\ trail = <<>>
    /\ dataset_info = None
    /\ exc = "None"
    /\ analysis_depth = "None"
    /\ results = None
    /\ task_df = DataFrame(<<>>, <<>>, <<>>)
    /\ iso_fitted = FALSE
    /\ anomaly_report = None
    /\ bias_report = None
    /\ consistency_result = None
    /\ request = DirectCall
    /\ stored = FALSE
    /\ record = "None"
    /\ response = None
    /\ key_insights = None

\* df = parse_analysis_report(content_str)
ParseReport ==
    /\ pc = "report"
    /\ pc' = "reported"
    /\ df' = Some(parse_analysis_report(content_str))
    /\ UNCHANGED <<file, declared_extension, content_str, actual_content_type,
                   file_issues, trail, dataset_info, exc, analysis_depth, results,
                   task_vars, upload_vars>>

NextReport == ParseReport

SpecReport == InitReport /\ [][NextReport]_vars

\* the lines the loop walks, and a line as the loop compares it
ReportLines == Split(Strip(content_str), "\n")

Normalised(line) == StripChar(Strip(line), "\"")

LowerChar(c) ==
    CASE c = "A" -> "a" [] c = "B" -> "b" [] c = "D" -> "d"
      [] c = "I" -> "i" [] c = "M" -> "m" [] c = "Q" -> "q" [] OTHER -> c

\* the label lower-cased with spaces replaced by underscores
LabelTag(label) ==
    [k \in 1..Len(label) |-> IF label[k] = " " THEN "_" ELSE LowerChar(label[k])]

IsLabelLine(i) == Normalised(ReportLines[i]) \in SectionHeaders

\* the section of the most recent label before line i, 'header' when there is none
SectionBefore(i) ==
    LET labels == {j \in 1..(i - 1) : IsLabelLine(j)} IN
    IF labels = {} THEN TAG_HEADER
    ELSE LabelTag(Normalised(ReportLines[CHOOSE j \in labels : \A k \in labels : k <= j]))

\* the two parts of a line around its first comma, each stripped
PartsOf(line) ==
    LET c == CHOOSE k \in 1..Len(line) : line[k] = "," /\ \A m \in 1..(k - 1) : line[m] # "," IN
    << Normalised(SubSeq(line, 1, c - 1)), Normalised(SubSeq(line, c + 1, Len(line))) >>

HasComma(line) == \E k \in 1..Len(line) : line[k] = ","

\* the row the claim describes for line i
RowOfLine(i) ==
    LET line == Normalised(ReportLines[i]) IN
    IF HasComma(line)
    THEN <<CStr(SectionBefore(i)), CStr(PartsOf(line)[1]), CStr(PartsOf(line)[2]), CNum(i)>>
    ELSE <<CStr(SectionBefore(i)), CStr(COL_CONTENT), CStr(line), CNum(i)>>

\* the lines that yield a row according to the claim: non-blank and no label
StatedDataLines ==
    SelectSeq([j \in 1..Len(ReportLines) |-> j],
              LAMBDA j : Normalised(ReportLines[j]) # <<>> /\ ~IsLabelLine(j))

\* the lines that yield a row in the code: a line with a comma only when the
\* parts on both sides of its first comma are non-empty
DataLines ==
    SelectSeq(StatedDataLines,
              LAMBDA j : HasComma(Normalised(ReportLines[j])) =>
                             /\ PartsOf(Normalised(ReportLines[j]))[1] # <<>>
                             /\ PartsOf(Normalised(ReportLines[j]))[2] # <<>>)

\* C22 as stated: every non-blank line that is no section label yields exactly
\* one row, tagged with the section of the most recent label before it and
\* its 1-based line number, split on its first comma into (metric, value) or
\* kept as ('content', line); label lines and blank lines yield no row.
C22_AsStated ==
    pc = "reported" =>
        df[1].rows = [k \in 1..Len(StatedDataLines) |-> RowOfLine(StatedDataLines[k])]

\* C22: the rows of the report table are those of the data lines, in order:
\* the non-blank lines that are no section label (compared after stripping
\* white space and double quotes), except lines with a comma whose part
\* before or after the first comma is empty, which yield no row; each row
\* carries the section of the most recent label before it, its 1-based line
\* number and (metric, value) or ('content', line).  When no line yields a
\* row, the table is the one-column table 'content' of all lines.
C22_ReportRows ==
    pc = "reported" =>
        IF DataLines # <<>>
        THEN /\ df[1].columns = <<COL_SECTION, COL_METRIC, COL_VALUE, COL_LINE_NUMBER>>
             /\ df[1].rows = [k \in 1..Len(DataLines) |-> RowOfLine(DataLines[k])]
        ELSE /\ df[1].columns = <<COL_CONTENT>>
             /\ df[1].rows = [k \in 1..Len(ReportLines) |-> <<CStr(ReportLines[k])>>]

\* a report whose second section holds a pair and whose last line is dropped
C22_Witness ==
    /\ pc = "reported"
    /\ Len(ReportLines) = 3
    /\ IsLabelLine(1)
    /\ Len(DataLines) = 1
    /\ Len(StatedDataLines) = 2
    /\ df[1].rows[1][1] = CStr(TAG_QUALITY)
    /\ df[1].rows[1][3] = CStr(<<"1", ",", "2">>)

\* the object the JSON probe accepted
AcceptedObject ==
    /\ ParserReturned
    /\ actual_content_type = "json"
    /\ json_loads(content_str).ok
    /\ json_loads(content_str).v.t = "obj"

SUFFIX_COUNT == <<"_", "c", "o", "u", "n", "t">>

SUFFIX_KEYS == <<"_", "k", "e", "y", "s">>

\* some column of the table starts with the given text
HasColumnUnder(d, prefix) ==
    \E j \in 1..Len(d.columns) :
        /\ Len(d.columns[j]) >= Len(prefix)
        /\ SubSeq(d.columns[j], 1, Len(prefix)) = prefix

\* C23: every object the JSON probe accepts is flattened before it becomes the
\* one-row table: a nested dict with at most 10 entries under key k gives the
\* column k_count and one column per sub-key and is expanded one level only
\* (a dict inside it gives no columns of its own entries); a nested dict with
\* more than 10 entries gives k_count and k_keys and no columns of its
\* entries; a non-empty nested list gives k_count.
C23_FlattenRules ==
    AcceptedObject =>
        LET data == json_loads(content_str).v
            d    == df[1]
        IN  /\ Len(d.rows) = 1
            /\ \A i \in 1..Len(data.ks) :
                   LET k == data.ks[i]
                       v == data.vs[i]
                   IN  /\ (v.t = "obj" /\ Len(v.ks) <= SmallObjectMax) =>
                              /\ HasColumn(d, k \o SUFFIX_COUNT)
                              /\ ~HasColumn(d, k)
                              /\ \A s \in 1..Len(v.ks) :
                                     /\ v.vs[s].t \notin {"obj", "arr"} =>
                                            HasColumn(d, k \o <<"_">> \o v.ks[s])
                                     /\ v.vs[s].t = "obj" =>
                                            \A e \in 1..Len(v.vs[s].ks) :
                                                ~HasColumnUnder(d, k \o <<"_">> \o v.ks[s]
                                                                     \o <<"_">> \o v.vs[s].ks[e])
                       /\ (v.t = "obj" /\ Len(v.ks) > SmallObjectMax) =>
                              /\ HasColumn(d, k \o SUFFIX_COUNT)
                              /\ HasColumn(d, k \o SUFFIX_KEYS)
                              /\ ~HasColumn(d, k)
                       /\ (v.t = "arr" /\ v.vs # <<>>) =>
                              /\ HasColumn(d, k \o SUFFIX_COUNT)
                              /\ ~HasColumn(d, k)

(***************************************************************************)
(* generate_smart_insights applied to tables around its thresholds          *)
(***************************************************************************)
\* row counts and null counts on both sides of the thresholds of the rules
InsightRowCounts == {99, 100, 101, 10000, 10001}

InsightNullCounts == {0, 4, 5, 6, 20, 21}

\* a numeric column of n cells whose first k cells are null
InsightTable(n, k) ==
    DataFrame(<<<<"x">>>>, <<"float64">>,
              [i \in 1..n |-> <<IF i <= k THEN CNaN ELSE CNum(1)>>])

InsightTables == {InsightTable(n, k) : n \in InsightRowCounts, k \in InsightNullCounts}

\* issue lists the parser can hand over
InsightIssues ==
    LET mismatch == Issue("extension_mismatch", "medium",
                          <<"File contains JSON but has ", ".csv", " extension">>,
                          <<"Consider renaming to .json">>)
        config   == Issue("config_file_detected", "info",
                          <<"Configuration file (package.json style) detected">>,
                          <<"Data will be flattened for analysis">>)
        fallback == Issue("fallback_parsing", "medium",
                          <<"Could not detect specific format, parsed as text">>,
                          <<"Verify file format and content">>)
    IN  { <<>>, <<mismatch>>, <<config>>, <<mismatch, config>>, <<fallback>> }

InitInsights ==
    /\ file = TextFile(<<"a">>)
    /\ declared_extension = ".csv"
    /\ pc = "insights"
    /\ content_str = <<"a">>
    /\ df \in {Some(t) : t \in InsightTables}
    /\ actual_content_type \in {"json", "csv", "document", "text"}
    /\ file_issues \in InsightIssues
    /\ trail = <<>>
    /\ dataset_info \in {Some(info) : info \in DatasetInfos(df[1])}
    /\ exc = "None"
    /\ analysis_depth = "None"
    /\ results = None
    /\ task_df = DataFrame(<<>>, <<>>, <<>>)
    /\ iso_fitted = FALSE
    /\ anomaly_report = None
    /\ bias_report = None
    /\ consistency_result = None
    /\ request = DirectCall
    /\ stored = FALSE
    /\ record = "None"
    /\ response = None
    /\ key_insights = None

\* 'insights': generate_smart_insights(df, dataset_info, file_issues)
GenerateInsights ==
    /\ pc = "insights"
    /\ pc' = "insights_done"
    /\ results' = Some([insights |-> generate_smart_insights(df[1], dataset_info[1], file_issues)])
    /\ UNCHANGED <<file, declared_extension, content_str, df, actual_content_type,
                   file_issues, trail, dataset_info, exc, analysis_depth,
                   task_vars, upload_vars>>

NextInsights == GenerateInsights

SpecInsights == InitInsights /\ [][NextInsights]_vars

\* the number of times an insight occurs in the list of the run
InsightCount(name) ==
    Cardinality({i \in 1..Len(results[1].insights) : results[1].insights[i] = name})

\* C24: the high-missing insight appears (once) iff missing_percentage > 20
\* and the low-missing insight iff missing_percentage < 5, so never both and
\* neither from 5 to 20; the small-dataset insight appears (once) iff the
\* table has fewer than 100 rows and the large-dataset insight iff it has
\* more than 10000 rows, so never both and neither in between.
C24_InsightThresholds ==
    pc = "insights_done" =>
        LET mp   == dataset_info[1].missing_percentage
            rows == Len(df[1].rows)
        IN  /\ InsightCount("high_missing") = (IF mp > 2000 THEN 1 ELSE 0)
            /\ InsightCount("low_missing") = (IF mp < 500 THEN 1 ELSE 0)
            /\ InsightCount("high_missing") + InsightCount("low_missing") <= 1
            /\ InsightCount("small_dataset") = (IF rows < 100 THEN 1 ELSE 0)
            /\ InsightCount("large_dataset") = (IF rows > 10000 THEN 1 ELSE 0)
            /\ InsightCount("small_dataset") + InsightCount("large_dataset") <= 1

\* a table of exactly 100 rows with exactly 20 percent of its cells null:
\* neither missing-data insight and neither size insight
C24_Witness ==
    /\ pc = "insights_done"
    /\ Len(df[1].rows) = 100
    /\ dataset_info[1].missing_percentage = 2000
    /\ InsightCount("high_missing") = 0
    /\ InsightCount("low_missing") = 0
    /\ InsightCount("small_dataset") = 0
    /\ InsightCount("large_dataset") = 0

\* the rule group of an insight: 1 issue-driven, 2 data quality, 3 content
\* type, 4 size
InsightGroup(name) ==
    CASE name \in {"extension_mismatch", "config_file"} -> 1
      [] name \in {"high_missing", "low_missing"} -> 2
      [] name \in {"json_structure", "document_content"} -> 3
      [] name \in {"small_dataset", "large_dataset"} -> 4

\* the group of an entry of the stored list: an issue message is issue-driven
StoredGroup(entry) == IF entry.from = "issue" THEN 1 ELSE InsightGroup(entry.text)

\* C25: in the insights of a run every issue-driven insight precedes every
\* data-quality insight, which precedes every content-type insight, which
\* precedes every size insight; the same holds for the list stored on the
\* analysis record.
C25_InsightOrder ==
    /\ (results # None) =>
           \A i, j \in 1..Len(results[1].insights) :
               i < j => InsightGroup(results[1].insights[i])
                            <= InsightGroup(results[1].insights[j])
    /\ (key_insights # None) =>
           \A i, j \in 1..Len(key_insights[1]) :
               i < j => StoredGroup(key_insights[1][i]) <= StoredGroup(key_insights[1][j])

\* a completed upload whose stored list holds an issue message and insights
\* of all four groups
C25_Witness ==
    /\ pc = "responded"
    /\ record = "completed"
    /\ key_insights # None
    /\ key_insights[1][1].from = "issue"
    /\ \A g \in 1..4 : \E i \in 1..Len(results[1].insights) :
           InsightGroup(results[1].insights[i]) = g

DetailedKeys == {"detailed_statistics", "content_analysis", "recommendations"}

CommonKeys == {"quality_score", "basic_metrics", "file_structure_analysis", "insights"}

\* C26: the results hold recommendations, detailed statistics and the
\* content-type analysis iff the requested depth is 'full'; for 'basic' and
\* any other depth none of these keys is present; the quality score, basic
\* metrics, file-structure analysis and insights are what every other depth
\* yields on the same input.
C26_DepthKeys ==
    pc = "analyzed" =>
        /\ CommonKeys \subseteq DOMAIN results[1]
        /\ \A key \in DetailedKeys :
               key \in DOMAIN results[1] <=> analysis_depth = "full"
        /\ DOMAIN results[1] \subseteq CommonKeys \cup DetailedKeys
        /\ \A depth \in Depths :
               \E other \in analyze_dataset_smart(df[1], dataset_info[1], file_issues, depth) :
                   \A key \in CommonKeys : other[key] = results[1][key]

\* an analysis at a depth that is neither 'basic' nor 'full'
C26_Witness ==
    /\ pc = "analyzed"
    /\ analysis_depth = "quick"
    /\ DOMAIN results[1] = CommonKeys
    /\ generate_recommendations(df[1], dataset_info[1], file_issues) # <<>>

(***************************************************************************)
(* generate_visualizations_smart                                            *)
(***************************************************************************)
HistogramsShown == 3

\* the descriptors with a histogram for every numeric column
generate_visualizations_smart_uncapped(d, issues) ==
    LET numeric_cols == SelectSeq([j \in 1..Len(d.columns) |-> j],
                                  LAMBDA j : d.dtypes[j] \in NumericDtypes)
        severity_counts ==
            [sev \in {issues[i].severity : i \in 1..Len(issues)} |-> CountSeverity(issues, sev)]
    IN  (IF issues # <<>>
         THEN <<[key |-> "file_issues", type |-> "bar_chart", column |-> <<>>,
                 data |-> Some(severity_counts)]>>
         ELSE <<>>)
        \o [i \in 1..Len(numeric_cols) |->
               [key |-> "dist", type |-> "histogram", column |-> d.columns[numeric_cols[i]],
                data |-> None]]
        \o (IF Len(numeric_cols) > 1
            THEN <<[key |-> "correlation", type |-> "heatmap", column |-> <<>>, data |-> None]>>
            ELSE <<>>)
        \o (IF \E r \in 1..Len(d.rows) : \E j \in 1..Len(d.columns) : IsNull(d.rows[r][j])
            THEN <<[key |-> "missing_data", type |-> "bar_chart", column |-> <<>>, data |-> None]>>
            ELSE <<>>)

\* the visualizations dict in insertion order; the key of a histogram is
\* 'dist_' followed by its column; titles and descriptions are left out
generate_visualizations_smart(d, issues) ==
    LET numeric_cols == SelectSeq([j \in 1..Len(d.columns) |-> j],
                                  LAMBDA j : d.dtypes[j] \in NumericDtypes)
        severity_counts ==
            [sev \in {issues[i].severity : i \in 1..Len(issues)} |-> CountSeverity(issues, sev)]
    IN  (IF issues # <<>>
         THEN <<[key |-> "file_issues", type |-> "bar_chart", column |-> <<>>,
                 data |-> Some(severity_counts)]>>
         ELSE <<>>)
        \o [i \in 1..Min(HistogramsShown, Len(numeric_cols)) |->
               [key |-> "dist", type |-> "histogram", column |-> d.columns[numeric_cols[i]],
                data |-> None]]
        \o (IF Len(numeric_cols) > 1
            THEN <<[key |-> "correlation", type |-> "heatmap", column |-> <<>>, data |-> None]>>
            ELSE <<>>)
        \o (IF \E r \in 1..Len(d.rows) : \E j \in 1..Len(d.columns) : IsNull(d.rows[r][j])
            THEN <<[key |-> "missing_data", type |-> "bar_chart", column |-> <<>>, data |-> None]>>
            ELSE <<>>)

MaxVizCols == 5

\* a table of two rows over columns of the given dtypes; with_null puts a
\* null in the first cell of the last column (a float64 or object column)
VizTable(dtypes, with_null) ==
    DataFrame([j \in 1..Len(dtypes) |-> TaskColumnName(j)], dtypes,
              [r \in 1..2 |->
                  [j \in 1..Len(dtypes) |->
                      IF with_null /\ r = 1 /\ j = Len(dtypes)
                      THEN CNaN
                      ELSE IF dtypes[j] = "object" THEN CStr(<<"a">>)
                      ELSE IF dtypes[j] = "bool" THEN CBool(TRUE)
                      ELSE CNum(r)]])

VizTables ==
    LET dtype_lists == UNION {[1..n -> {"int64", "float64", "object", "bool"}] :
                                  n \in 1..MaxVizCols}
    IN  { VizTable(dtypes, FALSE) : dtypes \in dtype_lists }
        \cup { VizTable(dtypes, TRUE) :
                   dtypes \in {l \in dtype_lists : l[Len(l)] \in {"float64", "object"}} }

InitViz ==
    /\ file = TextFile(<<"a">>)
    /\ declared_extension = ".csv"
    /\ pc = "visualize"
    /\ content_str = <<"a">>
    /\ df \in {Some(t) : t \in VizTables}
    /\ actual_content_type = "csv"
    /\ file_issues \in InsightIssues
    /\ trail = <<>>
    /\ dataset_info = None
    /\ exc = "None"
    /\ analysis_depth = "None"
    /\ results = None
    /\ task_df = DataFrame(<<>>, <<>>, <<>>)
    /\ iso_fitted = FALSE
    /\ anomaly_report = None
    /\ bias_report = None
    /\ consistency_result = None
    /\ request = DirectCall
    /\ stored = FALSE
    /\ record = "None"
    /\ response = None
    /\ key_insights = None

\* visualizations = generate_visualizations_smart(df, file_issues)
GenerateVisualizations ==
    /\ pc = "visualize"
    /\ pc' = "visualized"
    /\ results' = Some([visualizations |-> generate_visualizations_smart(df[1], file_issues)])
    /\ UNCHANGED <<file, declared_extension, content_str, df, actual_content_type,
                   file_issues, trail, dataset_info, exc, analysis_depth,
                   task_vars, upload_vars>>

NextViz == GenerateVisualizations

SpecViz == InitViz /\ [][NextViz]_vars

\* the descriptors of the run with the given key, in order
Descriptors(key) ==
    SelectSeq(results[1].visualizations, LAMBDA v : v.key = key)

\* the names of the numeric columns of the table, in column order
NumericNames ==
    LET numeric == SelectSeq([j \in 1..Len(df[1].columns) |-> j],
                             LAMBDA j : df[1].dtypes[j] \in {"int64", "float64"})
    IN  [i \in 1..Len(numeric) |-> df[1].columns[numeric[i]]]

\* C27: the descriptors are determined by the table and the issues: the
\* issue bar chart is present iff there is an issue, the histograms are
\* those of the first min(3, number of numeric columns) numeric columns in
\* column order, the correlation heatmap is present iff there are at least
\* two numeric columns, the missing-data chart is present iff some cell is
\* null, and no descriptor carries an image.
C27_Visualizations ==
    pc = "visualized" =>
        LET shown == IF Len(NumericNames) < 3 THEN Len(NumericNames) ELSE 3 IN
        /\ Len(Descriptors("file_issues")) = (IF file_issues # <<>> THEN 1 ELSE 0)
        /\ Len(Descriptors("dist")) = shown
        /\ \A i \in 1..shown :
               /\ Descriptors("dist")[i].column = NumericNames[i]
               /\ Descriptors("dist")[i].type = "histogram"
        /\ Len(Descriptors("correlation")) = (IF Len(NumericNames) >= 2 THEN 1 ELSE 0)
        /\ Len(Descriptors("missing_data")) = (IF MissingCells(df[1]) > 0 THEN 1 ELSE 0)
        /\ \A i \in 1..Len(results[1].visualizations) :
               LET v == results[1].visualizations[i] IN
               /\ v.key \in {"file_issues", "dist", "correlation", "missing_data"}
               /\ DOMAIN v = {"key", "type", "column", "data"}
               /\ v.data # None => v.key = "file_issues"

\* a table with more than three numeric columns behind an object column,
\* a null cell and an issue
C27_Witness ==
    /\ pc = "visualized"
    /\ Len(NumericNames) > 3
    /\ df[1].dtypes[1] = "object"
    /\ MissingCells(df[1]) > 0
    /\ file_issues # <<>>
    /\ Len(results[1].visualizations) = 6

(***************************************************************************)
(* tasks.py: process_dataset, and the life of a DatasetAnalysis record      *)
(***************************************************************************)
\* process_dataset is called for a stored record whose status is 'pending'
InitProcess ==
    /\ file = TextFile(<<>>)
    /\ declared_extension \in {".csv", ".json"}
    /\ pc = "process_dataset"
    /\ content_str = <<>>
    /\ df = None
    /\ actual_content_type = "None"
    /\ file_issues = <<>>
    /\ trail = <<>>
    /\ dataset_info = None
    /\ exc = "None"
    /\ analysis_depth = "None"
    /\ results = None
    /\ task_df \in BiasNested \cup OutlierTables
    /\ iso_fitted = FALSE
    /\ anomaly_report = None
    /\ bias_report = None
    /\ consistency_result = None
    /\ request = DirectCall
    /\ stored = TRUE
    /\ record = "pending"
    /\ response = None
    /\ key_insights = None

\* analysis.status = 'processing'; analysis.save()
ProcessStart ==
    /\ pc = "process_dataset"
    /\ record' = "processing"
    /\ pc' = "load_dataset"
    /\ UNCHANGED <<parser_vars, task_vars, request, stored, response, key_insights>>

\* df = load_dataset(file_path): the table, or None when reading the file
\* failed, and then raise Exception("Could not load dataset")
LoadDataset ==
    /\ pc = "load_dataset"
    /\ \/ pc' = "analyses" /\ exc' = exc
       \/ pc' = "process_except" /\ exc' = "Exception"
    /\ UNCHANGED <<file, declared_extension, content_str, df, actual_content_type,
                   file_issues, trail, dataset_info, analysis_depth, results,
                   task_vars, upload_vars>>

\* the results dict: detect_anomalies and analyze_bias as above; each of
\* get_basic_statistics, analyze_data_quality, generate_insights and
\* create_visualizations returns or raises
RunAnalyses ==
    /\ pc = "analyses"
    /\ UNCHANGED <<file, declared_extension, content_str, df, actual_content_type,
                   file_issues, trail, dataset_info, analysis_depth, results,
                   task_df, consistency_result, upload_vars>>
    /\ \/ /\ pc' = "process_except"
          /\ exc' = "Exception"
          /\ UNCHANGED <<iso_fitted, anomaly_report, bias_report>>
       \/ /\ pc' = "analyses_done"
          /\ exc' = exc
          /\ \E report \in BiasReports(task_df) : bias_report' = Some(report)
          /\ LET numeric == NumericFilled(task_df) IN
             IF TooFewSamples(numeric)
             THEN /\ anomaly_report' = Some(ZeroAnomalies)
                  /\ iso_fitted' = FALSE
             ELSE /\ iso_fitted' = TRUE
                  /\ \/ \E flagged \in SUBSET (1..Len(numeric.rows)) :
                           /\ Cardinality(flagged) <= MaxFlagged
                           /\ anomaly_report' = Some(AnomalyReport(numeric, flagged))
                     \/ anomaly_report' = Some(ZeroAnomalies)

\* analysis.status = 'completed'; analysis.save(); return results
ProcessComplete ==
    /\ pc = "analyses_done"
    /\ record' = "completed"
    /\ pc' = "process_returned"
    /\ UNCHANGED <<parser_vars, task_vars, request, stored, response, key_insights>>

\* an except clause that marks the record in memory and does not save it
ProcessExcept_unsaved ==
    /\ pc = "process_except"
    /\ pc' = "process_raised"
    /\ UNCHANGED <<parser_vars, task_vars, upload_vars>>

\* except Exception: analysis.status = 'failed'; analysis.save(); raise
ProcessExcept ==
    /\ pc = "process_except"
    /\ record' = "failed"
    /\ pc' = "process_raised"
    /\ UNCHANGED <<parser_vars, task_vars, request, stored, response, key_insights>>

\* uploads that succeed, that fail in the analysis, in the parser and in its
\* final check
RecordTexts == {RoundTripCsv, NestedObject, MixedArray, EmptyObject}

\* the two calls that put a record in status 'processing'
InitRecord ==
    \/ InitUpload /\ file.bytes \in RecordTexts
    \/ InitProcess

NextRecord ==
    \/ upload_dataset
    \/ Validate
    \/ ReadFile
    \/ JsonProbe
    \/ CsvProbe
    \/ ExcelProbe
    \/ DocProbe
    \/ Fallback
    \/ Check
    \/ ParserRaised
    \/ CreateRecord
    \/ AnalyzeRecord
    \/ FinishRecord
    \/ FailRecord
    \/ ProcessStart
    \/ LoadDataset
    \/ RunAnalyses
    \/ ProcessComplete
    \/ ProcessExcept

\* the steps of the two calls after the record was put in 'processing'
AfterProcessing ==
    \/ AnalyzeRecord
    \/ FinishRecord
    \/ FailRecord
    \/ LoadDataset
    \/ RunAnalyses
    \/ ProcessComplete
    \/ ProcessExcept

\* both calls are synchronous: once the record is in 'processing' the call
\* runs on to its return or to the exception it raises
SpecRecord == InitRecord /\ [][NextRecord]_vars /\ WF_vars(AfterProcessing)

\* the call has returned normally, respectively raised
ReturnedNormally ==
    \/ pc = "process_returned"
    \/ pc = "responded" /\ response = Some(SuccessResponse)

Raised ==
    \/ pc = "process_raised"
    \/ pc = "responded" /\ response # Some(SuccessResponse)

C29_NoHighIssue ==
    /\ Len(file_issues) <= 2
    /\ \A i \in 1..Len(file_issues) : file_issues[i].severity \in {"medium", "info"}
    /\ results # None => results[1].quality_score.issue_penalty \in {0, 1, 5, 6}
    /\ dataset_info # None => ~FailedWith("VALIDATION_ERROR")

\* C29 witness: a strict upload with two issues was stored and analysed
C29_Witness ==
    /\ request.has_file
    /\ request.strict_format
    /\ Len(file_issues) = 2
    /\ record = "completed"
    /\ results[1].quality_score.issue_penalty = 6

\* C30: for every result of the parser the extension_mismatch flag of
\* dataset_info is true iff the issues list holds an issue of type
\* 'extension_mismatch'; a file whose declared extension matches its content
\* (.xlsx parsed as spreadsheet, .docx parsed as document, .txt parsed by the
\* line fallback) has the flag false.
C30_MismatchFlag ==
    ParserReturned =>
        /\ dataset_info[1].extension_mismatch
               <=> HasIssueType(file_issues, "extension_mismatch")
        /\ (declared_extension = ".xlsx" /\ actual_content_type = "excel")
               => ~dataset_info[1].extension_mismatch
        /\ (declared_extension = ".docx" /\ actual_content_type = "document")
               => ~dataset_info[1].extension_mismatch
        /\ (declared_extension = ".txt" /\ actual_content_type = "text")
               => ~dataset_info[1].extension_mismatch
====
